---- MODULE Spec2Model ----
(***************************************************************************)
(* A model of the crawl -> extract -> score -> contextualize pipeline of   *)
(* domain_analyzer.py.                                                     *)
(*                                                                         *)
(* URLs are integers: a positive integer is a URL on the base domain's     *)
(* host, a negative integer is a URL on another host.  URL 1 is the start  *)
(* URL.  A link on a page is an href: a target URL plus an optional        *)
(* fragment.  Ratios that the extractor rounds to three decimals           *)
(* (anchor_diversity, link_relevance_score, title_h1_similarity) are held  *)
(* in thousandths.                                                         *)
(***************************************************************************)
EXTENDS Integers, Sequences, FiniteSets, TLC

VARIABLES
    site,           \* the web site: URL -> the links of the page served there
    order,          \* iteration order of list(set(...)) in this process
    max_pages,      \* argument of _crawl_pages
    robots_outcome, \* what fetching robots.txt did
    robot_parser,   \* None or the RobotFileParser of _setup_robots_parser
    visited,        \* _crawl_pages: visited
    to_visit,       \* _crawl_pages: to_visit
    pages_data,     \* _crawl_pages: pages_data
    fetched,        \* the URLs handed to requests.get by _crawl_pages, in order
    blocked,        \* the URLs _crawl_pages skipped because of robots.txt
    failed,         \* the URLs whose fetch or extraction failed
    last,           \* the URL and outcome of the latest loop iteration
    pc,             \* position of the analysis
    target,         \* analyze_single_page_with_context: target page request
    answer,         \* kind of result returned to the caller
    page,           \* the PageSignals record being scored or evaluated
    structure_summary, \* the SiteStructureSummary used by the evaluator
    scored,         \* result of _apply_comprehensive_seo_scoring, once run
    evaluation,     \* result of _evaluate_page_with_site_context, once run
    doc,            \* the parsed document given to _extract_seo_elements
    calls,          \* the components the analysis has invoked after the crawl
    result,         \* the dict returned to the caller
    clock,          \* the time _crawl_pages has slept so far, in tenths of s
    fetch_times,    \* the clock at each requests.get of _crawl_pages
    cancelled,      \* the caller has asked to abort the crawl
    writer,         \* what rag_function and the LLM do when they are called
    enqueued,       \* every URL ever placed in to_visit, in order
    popped,         \* every URL taken by to_visit.pop(0), in order
    depths          \* depths[i]: number of links followed to find enqueued[i]

crawlVars == <<site, order, max_pages, robots_outcome, robot_parser, visited,
               to_visit, pages_data, fetched, blocked, failed, last, pc,
               target, answer>>

evalVars == <<page, structure_summary, scored, evaluation, doc>>

\* the crawl variables other than pc
crawlRest == <<site, order, max_pages, robots_outcome, robot_parser, visited,
               to_visit, pages_data, fetched, blocked, failed, last, target,
               answer>>

obsVars == <<calls, result, clock, fetch_times, cancelled, writer>>

\* the history of the frontier
orderVars == <<enqueued, popped, depths>>

vars == <<crawlVars, evalVars, obsVars, orderVars>>

-----------------------------------------------------------------------------
(* Bounds of the model *)

\* number of URLs on the base host in the sites of Spec
NInternal == 3
\* largest max_pages tried in Spec
MaxPages == 3
\* number of URLs on the base host in the large sites of SpecBudget
NBig == 22
\* number of rotations tried for the iteration order of a set
MaxRot == 1

(* Program constants *)

\* list(set(internal_links))[:20]
MaxLinksPerPage == 20

-----------------------------------------------------------------------------
(* URLs and pages *)

StartUrl == 1
BaseHost == "a.example"
OtherHost == "b.example"

\* urlparse(url).netloc
Netloc(u) == IF u > 0 THEN BaseHost ELSE OtherHost

Href(u, f) == [url |-> u, frag |-> f]

\* f"{parsed.scheme}://{parsed.netloc}{parsed.path}" (+ "?query"): the
\* fragment is dropped
CleanUrl(h) == h.url

Range(s) == {s[i] : i \in DOMAIN s}

RECURSIVE SortedSeq(_)
SortedSeq(S) ==
    IF S = {} THEN <<>>
    ELSE LET m == CHOOSE x \in S : \A y \in S : x <= y
         IN  <<m>> \o SortedSeq(S \ {m})

Reverse(s) == [i \in 1..Len(s) |-> s[Len(s) + 1 - i]]

Rotate(s, k) ==
    IF Len(s) = 0 THEN s
    ELSE [i \in 1..Len(s) |-> s[((i - 1 + k) % Len(s)) + 1]]

Orders == [rev : BOOLEAN, rot : 0..MaxRot]

\* list(set(xs)): the elements of a set in the order this process's hashing
\* gives them
ListOfSet(S, o) ==
    LET base == IF o.rev THEN Reverse(SortedSeq(S)) ELSE SortedSeq(S)
    IN  Rotate(base, o.rot)

Take(s, n) == IF Len(s) <= n THEN s ELSE SubSeq(s, 1, n)

NoHostFilterExtractInternalLinks(pg, base_domain, o) ==
    Take(ListOfSet({CleanUrl(h) : h \in pg.main}, o), MaxLinksPerPage)

CapOneExtractInternalLinks(pg, base_domain, o) ==
    Take(ListOfSet({CleanUrl(h) : h \in
                      {l \in pg.main : Netloc(l.url) = Netloc(base_domain)}}, o),
         1)

UncappedExtractInternalLinks(pg, base_domain, o) ==
    LET same == {h \in pg.main : Netloc(h.url) = Netloc(base_domain)}
    IN  ListOfSet({CleanUrl(h) : h \in same}, o)

\* _extract_internal_links: links outside navigation elements, same netloc
\* as the base domain, fragment removed, de-duplicated, at most 20
ExtractInternalLinks(pg, base_domain, o) ==
    LET same == {h \in pg.main : Netloc(h.url) = Netloc(base_domain)}
    IN  Take(ListOfSet({CleanUrl(h) : h \in same}, o), MaxLinksPerPage)

RECURSIVE EnqueueAtFront(_, _, _)
EnqueueAtFront(queue, links, seen) ==
    IF links = <<>> THEN queue
    ELSE LET link == Head(links)
         IN  EnqueueAtFront(IF link \notin seen /\ link \notin Range(queue)
                            THEN <<link>> \o queue ELSE queue,
                            Tail(links), seen)

RECURSIVE Enqueue(_, _, _)
\* for link in internal_links:
\*     if link not in visited and link not in to_visit: to_visit.append(link)
Enqueue(queue, links, seen) ==
    IF links = <<>> THEN queue
    ELSE LET link == Head(links)
         IN  Enqueue(IF link \notin seen /\ link \notin Range(queue)
                     THEN Append(queue, link) ELSE queue,
                     Tail(links), seen)

-----------------------------------------------------------------------------
(* robots.txt *)

RobotsOutcomes ==
    {"ok", "http_401_403", "http_4xx", "http_5xx", "url_error", "decode_error"}

\* the outcomes in which robots.txt could not be fetched or decoded
RobotsFailures == RobotsOutcomes \ {"ok"}

\* RobotFileParser(): nothing read yet
NewParser ==
    [is_none |-> FALSE, disallow_all |-> FALSE, allow_all |-> FALSE,
     last_checked |-> FALSE, disallowed |-> {}]

\* the value None of robot_parser
NoParser == [NewParser EXCEPT !.is_none = TRUE]

\* rp.read(): urlopen, then decode and parse.  An HTTPError is handled inside
\* read() (401/403: disallow_all, other 4xx: allow_all, 5xx: nothing is set);
\* a URLError or a decode error is raised to the caller
RobotsRead(outcome, rules) ==
    CASE outcome = "ok" ->
            [raised |-> FALSE,
             rp |-> [NewParser EXCEPT !.last_checked = TRUE, !.disallowed = rules]]
      [] outcome = "http_401_403" ->
            [raised |-> FALSE, rp |-> [NewParser EXCEPT !.disallow_all = TRUE]]
      [] outcome = "http_4xx" ->
            [raised |-> FALSE, rp |-> [NewParser EXCEPT !.allow_all = TRUE]]
      [] outcome = "http_5xx" -> [raised |-> FALSE, rp |-> NewParser]
      [] OTHER -> [raised |-> TRUE, rp |-> NewParser]

\* _setup_robots_parser: the parser, or None when reading raised
SetupRobotsParser(outcome, rules) ==
    LET r == RobotsRead(outcome, rules)
    IN  IF r.raised THEN NoParser ELSE r.rp

\* robot_parser.can_fetch(user_agent, url)
CanFetch(rp, url) ==
    IF rp.disallow_all THEN FALSE
    ELSE IF rp.allow_all THEN TRUE
    ELSE IF ~rp.last_checked THEN FALSE
    ELSE url \notin rp.disallowed

IgnoreRobotsBlocks(rp, url) == FALSE

\* robot_parser and not robot_parser.can_fetch(headers["User-Agent"], url)
RobotsBlocks(rp, url) == ~rp.is_none /\ ~CanFetch(rp, url)

-----------------------------------------------------------------------------
(* _crawl_pages *)

\* what one requests.get and the extraction after it can do
OkKind == "ok"
StatusKinds == {"status_2xx_other", "status_non_2xx"}
ExceptionKinds == {"timeout", "conn_error", "extract_error"}
FailKinds == StatusKinds \cup {"non_html"} \cup ExceptionKinds

LoopGuardOffByOne(queue, pages, limit) == queue # <<>> /\ Len(pages) <= limit

\* while to_visit and len(pages_data) < max_pages
LoopGuard(queue, pages, limit) == queue # <<>> /\ Len(pages) < limit

VisitedAfterForgetsTimeout(kind, seen, url) ==
    IF kind = "timeout" THEN seen ELSE seen \cup {url}

\* visited.add(url) on every path of the loop body that follows the fetch
VisitedAfter(kind, seen, url) == seen \cup {url}

HandlerMissesExtraction(kind) ==
    IF kind = "timeout" THEN "requests.Timeout"
    ELSE IF kind = "conn_error" THEN "Exception"
    ELSE "unhandled"

\* the except clause that catches an exception of this kind
Handler(kind) == IF kind = "timeout" THEN "requests.Timeout" ELSE "Exception"

-----------------------------------------------------------------------------
(* Text: a string is a sequence of one-character strings *)

T_seo == <<"s", "e", "o">>
T_SEO == <<"S", "E", "O">>
T_blog == <<"b", "l", "o", "g">>
T_news == <<"n", "e", "w", "s">>
T_shop == <<"s", "h", "o", "p">>
T_item == <<"i", "t", "e", "m">>
T_faq == <<"f", "a", "q">>
T_tips == <<"t", "i", "p", "s">>
T_Widgets == <<"W", "i", "d", "g", "e", "t", "s">>
T_SeoBlog == <<"S", "e", "o", " ", "B", "l", "o", "g">>
T_FaqPage == <<"F", "A", "Q">>

\* str.lower() on the characters used
LowerChar(c) ==
    CASE c = "S" -> "s" [] c = "E" -> "e" [] c = "O" -> "o" [] c = "B" -> "b"
      [] c = "W" -> "w" [] c = "F" -> "f" [] c = "A" -> "a" [] c = "Q" -> "q"
      [] c = "G" -> "g"
      [] OTHER -> c

Lower(s) == [i \in 1..Len(s) |-> LowerChar(s[i])]

\* needle in hay
Contains(needle, hay) ==
    \E i \in 0..(Len(hay) - Len(needle)) :
        SubSeq(hay, i + 1, i + Len(needle)) = needle

RECURSIVE JoinSpace(_)
\* " ".join(strings)
JoinSpace(strings) ==
    IF strings = <<>> THEN <<>>
    ELSE IF Len(strings) = 1 THEN strings[1]
    ELSE strings[1] \o <<" ">> \o JoinSpace(Tail(strings))

-----------------------------------------------------------------------------
(* _apply_comprehensive_seo_scoring *)

\* W: the points of each check
W ==
    [indexable |-> 10, canonical |-> 8, url_depth |-> 6,
     headings_hierarchy |-> 8, internal_links |-> 8,
     body_words |-> 10, title_h1_align |-> 8, readability_blocks |-> 10,
     alt_ratio |-> 6, h1_present |-> 6,
     howto_faq_toc |-> 10, freshness |-> 10]

\* the values robots_content takes in the model, and "noindex" in robots_content
RobotsContents == {"", "index, follow", "noindex, nofollow"}
HasNoindex(robots_content) == robots_content = "noindex, nofollow"

\* len(urlparse(url).path.strip("/").split("/")): "".split("/") has one element
PathDepth(url) == IF Len(url) = 0 THEN 1 ELSE Len(url)

IndexableWithViewport(p) ==
    ~HasNoindex(p.robots_content) /\ p.viewport_content # ""

Indexable(p) == ~HasNoindex(p.robots_content)
CanonicalSet(p) == p.canonical_url # ""
UrlShallow(p) == PathDepth(p.url) <= 3
HeadingsHierarchy(p) ==
    p.headings.h1 # <<>> /\ (p.headings.h2 # <<>> \/ p.headings.h3 # <<>>)
InternalLinksMin(p) == p.internal_links_count >= 5
AnchorDiversityMin(p) == p.anchor_diversity >= 300

BodyEnoughStrict(p) == p.body_char_count > 800

\* if body_char_count >= 800
BodyEnough(p) == p.body_char_count >= 800
TitleH1Aligned(p) == p.title_h1_similarity >= 500
ReadabilityBlocks(p) ==
    p.has_ordered_list \/ p.has_unordered_list \/ p.has_table \/ p.has_code
AltOkStrict(p) ==
    IF p.images_total_for_alt = 0 THEN TRUE
    ELSE 10 * (p.images_total_for_alt - p.images_without_alt)
            > 6 * p.images_total_for_alt

\* img_total == 0, or (img_total - img_wo_alt) / img_total >= 0.6
AltOk(p) ==
    IF p.images_total_for_alt = 0 THEN TRUE
    ELSE 10 * (p.images_total_for_alt - p.images_without_alt)
            >= 6 * p.images_total_for_alt
H1Exists(p) == p.headings.h1 # <<>>
HowtoFaqToc(p) == p.howto_like \/ p.faq_like \/ p.toc_like
FreshnessSign(p) == p.updated_mention

Pts(cond, w) == IF cond THEN w ELSE 0

\* the running total "score" of the twelve if-statements
ScoreTotal(p) ==
    Pts(Indexable(p), W.indexable) + Pts(CanonicalSet(p), W.canonical)
    + Pts(UrlShallow(p), W.url_depth)
    + Pts(HeadingsHierarchy(p), W.headings_hierarchy)
    + Pts(InternalLinksMin(p) /\ AnchorDiversityMin(p), W.internal_links)
    + Pts(BodyEnough(p), W.body_words)
    + Pts(TitleH1Aligned(p), W.title_h1_align)
    + Pts(ReadabilityBlocks(p), W.readability_blocks)
    + Pts(AltOk(p), W.alt_ratio) + Pts(H1Exists(p), W.h1_present)
    + Pts(HowtoFaqToc(p), W.howto_faq_toc)
    + Pts(FreshnessSign(p), W.freshness)

\* check_results as the twelve if-statements fill it
CheckResults(p) ==
    [indexable |-> Indexable(p),
     canonical |-> CanonicalSet(p),
     url_shallow |-> UrlShallow(p),
     headings_hierarchy |-> HeadingsHierarchy(p),
     internal_links_min |-> InternalLinksMin(p),
     anchor_diversity_min |-> AnchorDiversityMin(p),
     body_words_enough |-> BodyEnough(p),
     title_h1_aligned |-> TitleH1Aligned(p),
     readability_blocks |-> ReadabilityBlocks(p),
     alt_ok |-> AltOk(p),
     h1_exists |-> H1Exists(p),
     howto_faq_toc |-> HowtoFaqToc(p),
     freshness_sign |-> FreshnessSign(p)]

\* round(x / y, 1) with x / y held in tenths: round-half-even of 10 * x / y
RoundTenths(x, y) ==
    LET q == (10 * x) \div y
        r == (10 * x) % y
    IN  IF 2 * r > y \/ (2 * r = y /\ q % 2 = 1) THEN q + 1 ELSE q

\* one entry of category_scores; percentage in tenths of a percent
Category(score, max) ==
    [score |-> score, max |-> max,
     percentage |-> IF max > 0 THEN RoundTenths(100 * score, max) ELSE 0]

\* category_scores, summed from check_results
CategoryScores(cr) ==
    [technical |->
        Category(Pts(cr.indexable, W.indexable) + Pts(cr.canonical, W.canonical)
                 + Pts(cr.url_shallow, W.url_depth)
                 + Pts(cr.headings_hierarchy, W.headings_hierarchy)
                 + Pts(cr.internal_links_min /\ cr.anchor_diversity_min,
                       W.internal_links), 40),
     content |->
        Category(Pts(cr.body_words_enough, W.body_words)
                 + Pts(cr.title_h1_aligned, W.title_h1_align)
                 + Pts(cr.readability_blocks, W.readability_blocks)
                 + Pts(cr.alt_ok, W.alt_ratio) + Pts(cr.h1_exists, W.h1_present),
                 40),
     planning |->
        Category(Pts(cr.howto_faq_toc, W.howto_faq_toc)
                 + Pts(cr.freshness_sign, W.freshness), 20)]

\* _apply_comprehensive_seo_scoring: the three entries it adds to the page
ApplyComprehensiveSeoScoring(p) ==
    [done |-> TRUE,
     comprehensive_score |-> ScoreTotal(p),
     category_scores |-> CategoryScores(CheckResults(p)),
     check_results |-> CheckResults(p)]

NotScored == [done |-> FALSE]

ScoredPageOverwritingSimilarity(p) ==
    LET r == ApplyComprehensiveSeoScoring(p)
    IN  ("comprehensive_score" :> r.comprehensive_score
         @@ "category_scores" :> r.category_scores
         @@ "check_results" :> r.check_results
         @@ "title_h1_similarity" :> p.title_h1_similarity \div 10)
        @@ p

\* page["comprehensive_score"], page["category_scores"] and
\* page["check_results"] are set on the dict passed in, which is returned
ScoredPage(p) ==
    LET r == ApplyComprehensiveSeoScoring(p)
    IN  ("comprehensive_score" :> r.comprehensive_score
         @@ "category_scores" :> r.category_scores
         @@ "check_results" :> r.check_results)
        @@ p

-----------------------------------------------------------------------------
(* _evaluate_page_with_site_context *)

NoAdjustment == [on |-> FALSE, key |-> "", adj |-> 0, bonus |-> 0, sugg |-> <<>>]

\* context_adjustments[key] = adj; context_bonus += bonus; suggestions += sugg
Adjustment(key, adj, bonus, sugg) ==
    [on |-> TRUE, key |-> key, adj |-> adj, bonus |-> bonus, sugg |-> sugg]

LinkAdjustmentRelevanceInclusive(p) ==
    LET page_links == p.internal_links_count
        link_relevance == p.link_relevance_score
    IN  IF page_links = 0
        THEN Adjustment("internal_links", -5, -5, <<"links_zero">>)
        ELSE IF page_links <= 2
        THEN Adjustment("internal_links", -3, -3, <<"links_few">>)
        ELSE IF page_links >= 3 /\ link_relevance <= 400
        THEN Adjustment("internal_links", -2, -2, <<"links_low_relevance">>)
        ELSE IF page_links >= 3 /\ link_relevance >= 600
        THEN Adjustment("internal_links", 2, 2, <<>>)
        ELSE NoAdjustment

\* 1. internal links: amount and relevance
LinkAdjustment(p) ==
    LET page_links == p.internal_links_count
        link_relevance == p.link_relevance_score
    IN  IF page_links = 0
        THEN Adjustment("internal_links", -5, -5, <<"links_zero">>)
        ELSE IF page_links <= 2
        THEN Adjustment("internal_links", -3, -3, <<"links_few">>)
        ELSE IF page_links >= 3 /\ link_relevance < 400
        THEN Adjustment("internal_links", -2, -2, <<"links_low_relevance">>)
        ELSE IF page_links >= 3 /\ link_relevance >= 600
        THEN Adjustment("internal_links", 2, 2, <<>>)
        ELSE NoAdjustment

\* 2. content volume: the character-count guidance is always suggested
VolumeAdjustment(p) ==
    LET page_chars == p.body_char_count
    IN  IF page_chars < 400
        THEN Adjustment("content_volume", -2, -2, <<"volume_guidance">>)
        ELSE IF page_chars >= 2000
        THEN Adjustment("content_volume", 2, 2, <<"volume_guidance">>)
        ELSE [NoAdjustment EXCEPT !.sugg = <<"volume_guidance">>]

\* len(path.split("/")) if path else 0
PageDepth(url) == Len(url)

DepthAdjustmentSilent(p) ==
    IF PageDepth(p.url) > 4
    THEN Adjustment("url_depth", -2, -2, <<>>)
    ELSE NoAdjustment

\* 3. URL depth
DepthAdjustment(p) ==
    IF PageDepth(p.url) > 4
    THEN Adjustment("url_depth", -2, -2, <<"url_too_deep">>)
    ELSE NoAdjustment

\* top_keywords = [kw for kw, count in structure_summary["top_keywords"]]
TopKeywords(summary) ==
    [i \in 1..Len(summary.top_keywords) |-> summary.top_keywords[i].kw]

\* any of top_keywords[:5] occurs in the lower-cased title or joined H1s
KeywordMatch(p, summary) ==
    LET top == TopKeywords(summary)
        page_title == Lower(p.title)
        page_h1 == Lower(JoinSpace(p.headings.h1))
    IN  \E i \in 1..Len(Take(top, 5)) :
            Contains(Lower(top[i]), page_title) \/ Contains(Lower(top[i]), page_h1)

\* 4. alignment with the site's keywords
KeywordAdjustment(p, summary) ==
    IF ~KeywordMatch(p, summary) /\ TopKeywords(summary) # <<>>
    THEN Adjustment("keyword_alignment", -2, -2, <<"keyword_alignment">>)
    ELSE IF KeywordMatch(p, summary)
    THEN Adjustment("keyword_alignment", 3, 3, <<>>)
    ELSE NoAdjustment

\* 5. meta keywords against the site's top 10 keywords
MetaKeywordsAdjustment(p, summary) ==
    LET meta_keywords_list == p.meta_keywords_list
        top == TopKeywords(summary)
    IN  IF meta_keywords_list # <<>> /\ top # <<>>
        THEN LET meta_kw_lower == [i \in DOMAIN meta_keywords_list |->
                                      Lower(meta_keywords_list[i])]
                 site_kw_lower == [i \in DOMAIN Take(top, 10) |-> Lower(top[i])]
                 common == Range(meta_kw_lower) \cap Range(site_kw_lower)
                 n == Len(meta_kw_lower)
             IN  IF 10 * Cardinality(common) < 3 * n
                 THEN Adjustment("meta_keywords_alignment", -2, -2,
                                 <<"meta_keywords_misaligned">>)
                 ELSE IF 10 * Cardinality(common) >= 7 * n
                 THEN Adjustment("meta_keywords_alignment", 2, 2, <<>>)
                 ELSE NoAdjustment
        ELSE NoAdjustment

ClampUpperOnly(x) == IF x > 100 THEN 100 ELSE x

\* max(0, min(100, x))
Clamp(x) == IF x < 0 THEN 0 ELSE IF x > 100 THEN 100 ELSE x

\* _evaluate_page_with_site_context
EvaluatePageWithSiteContext(p, summary) ==
    LET base_score == ApplyComprehensiveSeoScoring(p).comprehensive_score
        steps == <<LinkAdjustment(p), VolumeAdjustment(p), DepthAdjustment(p),
                   KeywordAdjustment(p, summary),
                   MetaKeywordsAdjustment(p, summary)>>
        context_bonus == steps[1].bonus + steps[2].bonus + steps[3].bonus
                         + steps[4].bonus + steps[5].bonus
        keys == {steps[i].key : i \in {j \in 1..5 : steps[j].on}}
    IN  [done |-> TRUE,
         contextual_score |-> Clamp(base_score + context_bonus),
         base_score |-> base_score,
         context_adjustments |->
            [k \in keys |->
                steps[CHOOSE i \in 1..5 : steps[i].on /\ steps[i].key = k].adj],
         suggestions |-> steps[1].sugg \o steps[2].sugg \o steps[3].sugg
                         \o steps[4].sugg \o steps[5].sugg]

NotEvaluated == [done |-> FALSE]

-----------------------------------------------------------------------------
(* Extraction: _extract_seo_elements on a parsed document *)

T_BuyWidgetsOnline == <<"B", "u", "y", " ", "W", "i", "d", "g", "e", "t", "s", " ", "O", "n", "l", "i", "n", "e">>
T_SeoGuide == <<"S", "E", "O", " ", "G", "u", "i", "d", "e">>
T_SeoGuideForBeginners == <<"S", "E", "O", " ", "G", "u", "i", "d", "e", " ", "f", "o", "r", " ", "B", "e", "g", "i", "n", "n", "e", "r", "s">>
T_SeoTips == <<"s", "e", "o", " ", "t", "i", "p", "s">>
T_BuyOnline == <<"B", "u", "y", " ", "o", "n", "l", "i", "n", "e">>
T_AllWidgets == <<"A", "l", "l", " ", "W", "i", "d", "g", "e", "t", "s">>

\* navigation_keywords of _extract_text_from_tag and of the fallback
TextNavigationKeywords ==
    { <<"h", "e", "a", "d", "e", "r">>,
      <<"f", "o", "o", "t", "e", "r">>,
      <<"n", "a", "v">>,
      <<"m", "e", "n", "u">>,
      <<"n", "a", "v", "i", "g", "a", "t", "i", "o", "n">>,
      <<"s", "i", "d", "e", "b", "a", "r">>,
      <<"a", "s", "i", "d", "e">>,
      <<"s", "i", "d", "e">>,
      <<"b", "r", "e", "a", "d", "c", "r", "u", "m", "b">> }

\* navigation_keywords of _is_navigation_element
NavigationKeywords ==
    { <<"h", "e", "a", "d", "e", "r">>,
      <<"f", "o", "o", "t", "e", "r">>,
      <<"n", "a", "v">>,
      <<"m", "e", "n", "u">>,
      <<"n", "a", "v", "i", "g", "a", "t", "i", "o", "n">>,
      <<"s", "i", "d", "e", "b", "a", "r">>,
      <<"a", "s", "i", "d", "e">>,
      <<"s", "i", "d", "e">>,
      <<"b", "r", "e", "a", "d", "c", "r", "u", "m", "b">>,
      <<"g", "n", "a", "v">>,
      <<"g", "l", "o", "b", "a", "l", "-", "n", "a", "v">>,
      <<"h", "a", "m", "b", "u", "r", "g", "e", "r">>,
      <<"d", "r", "a", "w", "e", "r">>,
      <<"t", "o", "p", "-", "m", "e", "n", "u">>,
      <<"b", "o", "t", "t", "o", "m", "-", "m", "e", "n", "u">> }

\* content_classes, in the order they are tried
ContentClasses ==
    << <<"e", "n", "t", "r", "y", "-", "c", "o", "n", "t", "e", "n", "t">>,
       <<"p", "o", "s", "t", "-", "c", "o", "n", "t", "e", "n", "t">>,
       <<"a", "r", "t", "i", "c", "l", "e", "-", "c", "o", "n", "t", "e", "n", "t">>,
       <<"b", "l", "o", "g", "-", "c", "o", "n", "t", "e", "n", "t">>,
       <<"c", "o", "n", "t", "e", "n", "t", "-", "b", "o", "d", "y">>,
       <<"m", "a", "i", "n", "-", "c", "o", "n", "t", "e", "n", "t">> >>

NavigationTags == {"header", "footer", "nav"}
NavigationRoles == {"navigation", "banner", "contentinfo", "complementary"}

\* the characters \w does not match, among those used
IsWordChar(c) == c \notin {" ", "-", ",", "."}

\* _tokenize: set(re.findall(r"\w+", s.lower()))
Tokenize(s) ==
    LET l == Lower(s)
        n == Len(l)
    IN  {SubSeq(l, i, j) : <<i, j>> \in
            {ij \in (1..n) \X (1..n) :
                /\ ij[1] <= ij[2]
                /\ \A k \in ij[1]..ij[2] : IsWordChar(l[k])
                /\ ij[1] = 1 \/ ~IsWordChar(l[ij[1] - 1])
                /\ ij[2] = n \/ ~IsWordChar(l[ij[2] + 1])}}

\* round(n / d, 3), in thousandths
RoundThousandths(n, d) == (2000 * n + d) \div (2 * d)

TitleH1SimOverH1(title, h1s) ==
    IF h1s = <<>> THEN 0
    ELSE LET t_tokens == Tokenize(title)
             h_tokens == Tokenize(h1s[1])
             inter == Cardinality(t_tokens \cap h_tokens)
             uni == Cardinality(h_tokens)
         IN  IF uni # 0 THEN RoundThousandths(inter, uni) ELSE 0

\* title_h1_sim: Jaccard similarity of the title and the first H1
TitleH1Sim(title, h1s) ==
    IF h1s = <<>> THEN 0
    ELSE LET t_tokens == Tokenize(title)
             h_tokens == Tokenize(h1s[1])
             inter == Cardinality(t_tokens \cap h_tokens)
             uni == Cardinality(t_tokens \cup h_tokens)
         IN  IF uni # 0 THEN RoundThousandths(inter, uni) ELSE 0

\* page_keywords = _tokenize(title + " " + " ".join(headings["h1"]))
PageKeywords(title, h1s) == Tokenize(title \o <<" ">> \o JoinSpace(h1s))

Max(a, b) == IF a >= b THEN a ELSE b

\* similarity = intersection / max(union, 1); similarity > 0.2
Relevant(page_keywords, anchor) ==
    LET anchor_keywords == Tokenize(anchor)
        intersection == Cardinality(page_keywords \cap anchor_keywords)
        union == Cardinality(page_keywords \cup anchor_keywords)
    IN  5 * intersection > Max(union, 1)

\* link_relevance_score, in thousandths
LinkRelevanceScore(title, h1s, anchor_texts) ==
    LET page_keywords == PageKeywords(title, h1s)
    IN  IF anchor_texts # <<>> /\ page_keywords # {}
        THEN LET relevant_links ==
                    Cardinality({i \in 1..Len(anchor_texts) :
                                    Relevant(page_keywords, anchor_texts[i])})
             IN  RoundThousandths(relevant_links, Max(Len(anchor_texts), 1))
        ELSE 0

\* anchor_diversity, in thousandths
AnchorDiversity(anchor_texts) ==
    IF anchor_texts # <<>>
    THEN RoundThousandths(Cardinality(Range(anchor_texts)),
                          Max(1, Len(anchor_texts)))
    ELSE 0

\* a parsed document: the elements under <body> in document order, each with
\* its parent (0 for <body>), its own text, and the <a href> directly in it
Text(chars, ws, marks) == [chars |-> chars, ws |-> ws, marks |-> marks]
NoText == Text(0, 0, {})
Link(host, path, text) == [host |-> host, path |-> path, text |-> text]
Node(name, role, cls, id, parent, text, links) ==
    [name |-> name, role |-> role, cls |-> cls, id |-> id, parent |-> parent,
     text |-> text, links |-> links]

RECURSIVE AncestorsOrSelf(_, _)
\* the element and its parents, up to <body>
AncestorsOrSelf(nodes, i) ==
    IF i = 0 THEN {} ELSE {i} \cup AncestorsOrSelf(nodes, nodes[i].parent)

\* tag.find_all(True)
Descendants(nodes, t) ==
    {j \in 1..Len(nodes) : j # t /\ t \in AncestorsOrSelf(nodes, j)}

\* any(keyword in class_str ...) or any(keyword in tag_id ...)
HasKeyword(nd, keywords) ==
    \E k \in keywords : Contains(k, Lower(nd.cls)) \/ Contains(k, Lower(nd.id))

\* len(re.sub(r'[\s\u3000]+', '', s)) of a string
NonSpaceLen(s) == Cardinality({i \in 1..Len(s) : s[i] # " "})

RECURSIVE SumOver(_, _)
\* the sum of f[i] over the indices in S
SumOver(f, S) ==
    IF S = {} THEN 0
    ELSE LET i == CHOOSE x \in S : TRUE
         IN  f[i] + SumOver(f, S \ {i})

\* the characters other than whitespace of the strings inside one element:
\* its own text and the texts of its links
NodeChars(nd) ==
    nd.text.chars
    + SumOver([k \in 1..Len(nd.links) |-> NonSpaceLen(nd.links[k].text)],
              1..Len(nd.links))

\* _extract_text_from_tag: the elements whose strings are kept
ExtractTextFromTag(nodes, t) ==
    LET excluded_tags ==
            {j \in Descendants(nodes, t) :
                \/ nodes[j].name \in NavigationTags
                \/ HasKeyword(nodes[j], TextNavigationKeywords)}
    IN  {j \in Descendants(nodes, t) \cup {t} :
            /\ NodeChars(nodes[j]) > 0
            /\ AncestorsOrSelf(nodes, j) \cap excluded_tags = {}}

\* the fallback when there is no main-content tag
FallbackText(nodes) ==
    LET excluded_tags ==
            {j \in 1..Len(nodes) :
                \/ nodes[j].name \in NavigationTags
                \/ HasKeyword(nodes[j], TextNavigationKeywords)}
    IN  {j \in 1..Len(nodes) :
            /\ NodeChars(nodes[j]) > 0
            /\ AncestorsOrSelf(nodes, j) \cap excluded_tags = {}}

\* len(re.sub(r'[\s\u3000]+', '', text)) of the joined parts
CleanLen(nodes, parts) ==
    SumOver([j \in 1..Len(nodes) |-> NodeChars(nodes[j])], parts)

\* soup.find(...): the first element in document order, 0 if there is none
First(S) == IF S = {} THEN 0 ELSE CHOOSE i \in S : \A j \in S : i <= j

\* candidate_tags
CandidateTags(nodes) ==
    LET n == 1..Len(nodes)
        article_tag == First({i \in n : nodes[i].name = "article"})
        found == {c \in 1..Len(ContentClasses) :
                     \E i \in n : nodes[i].cls = ContentClasses[c]}
        elem == IF found = {} THEN 0
                ELSE First({i \in n : nodes[i].cls = ContentClasses[First(found)]})
        main_tag == First({i \in n : nodes[i].name = "main"})
    IN  SelectSeq(<<article_tag, elem, main_tag>>, LAMBDA i : i # 0)

MainContentTagOrFallback(nodes) ==
    LET candidate_tags == CandidateTags(nodes)
        big == {c \in 1..Len(candidate_tags) :
                   CleanLen(nodes, ExtractTextFromTag(nodes, candidate_tags[c]))
                       >= 100}
    IN  IF big # {} THEN candidate_tags[First(big)]
        ELSE 0

\* main_content_tag, 0 for None
MainContentTag(nodes) ==
    LET candidate_tags == CandidateTags(nodes)
        big == {c \in 1..Len(candidate_tags) :
                   CleanLen(nodes, ExtractTextFromTag(nodes, candidate_tags[c]))
                       >= 100}
    IN  IF big # {} THEN candidate_tags[First(big)]
        ELSE IF candidate_tags # <<>> THEN candidate_tags[1]
        ELSE 0

\* the elements whose strings make up text_content
TextParts(nodes) ==
    LET main_content_tag == MainContentTag(nodes)
    IN  IF main_content_tag # 0
        THEN ExtractTextFromTag(nodes, main_content_tag)
        ELSE FallbackText(nodes)

\* _is_navigation_element, for a tag directly inside element j
IsNavigationElement(nodes, j) ==
    \E a \in AncestorsOrSelf(nodes, j) :
        \/ nodes[a].name \in NavigationTags
        \/ nodes[a].role \in NavigationRoles
        \/ HasKeyword(nodes[a], NavigationKeywords)

RECURSIVE AllLinks(_, _)
\* soup.find_all("a", href=True) from element j on, each with its element
AllLinks(nodes, j) ==
    IF j > Len(nodes) THEN <<>>
    ELSE [k \in 1..Len(nodes[j].links) |->
             [owner |-> j, link |-> nodes[j].links[k]]]
         \o AllLinks(nodes, j + 1)

-----------------------------------------------------------------------------
(* Pages and site summaries given to the scorer and the evaluator *)

Headings(a, b, c) == [h1 |-> a, h2 |-> b, h3 |-> c]

Flags4 ==
    {[ol |-> a, ul |-> b, tb |-> c, cd |-> d] : a, b, c, d \in BOOLEAN}
Flags3 == {[howto |-> a, faq |-> b, toc |-> c] : a, b, c \in BOOLEAN}
Count4(f) ==
    Pts(f.ol, 1) + Pts(f.ul, 1) + Pts(f.tb, 1) + Pts(f.cd, 1)
Count3(f) == Pts(f.howto, 1) + Pts(f.faq, 1) + Pts(f.toc, 1)

\* images_total_for_alt and images_without_alt: no image, 3 of 5 with alt
\* (ratio 0.6), 2 of 5 with alt (ratio 0.4)
ImageCounts == {<<0, 0>>, <<5, 2>>, <<5, 3>>}

\* H1 list and title_h1_similarity: the similarity is 0 without an H1
H1AndSimilarity ==
    {<<<<>>, 0>>, <<<<T_Widgets>>, 0>>, <<<<T_Widgets>>, 499>>,
     <<<<T_Widgets>>, 500>>}

PathShallow == <<T_blog, T_seo, T_tips>>
PathFour == <<T_blog, T_seo, T_tips, T_faq>>
PathFive == <<T_blog, T_seo, T_tips, T_faq, T_item>>

MkPage(url, title, meta, robots, canonical, hs, sim, links, div, rel, body,
       blocks, img, plan, upd) ==
    [url |-> url, title |-> title, meta_keywords_list |-> meta,
     robots_content |-> robots, canonical_url |-> canonical,
     headings |-> hs, title_h1_similarity |-> sim,
     internal_links_count |-> links, anchor_diversity |-> div,
     link_relevance_score |-> rel, body_char_count |-> body,
     has_ordered_list |-> blocks.ol, has_unordered_list |-> blocks.ul,
     has_table |-> blocks.tb, has_code |-> blocks.cd,
     images_total_for_alt |-> img[1], images_without_alt |-> img[2],
     howto_like |-> plan.howto, faq_like |-> plan.faq, toc_like |-> plan.toc,
     updated_mention |-> upd]

\* pages for the scorer: every check on both sides of its threshold
ScorePages ==
    {MkPage(url, T_Widgets, <<>>, robots, canonical,
            Headings(hsim[1], h2, h3), hsim[2], links, div, 500, body,
            blocks, img, plan, upd) :
        url \in {PathShallow, PathFour},
        robots \in {"", "noindex, nofollow"},
        canonical \in {"", "https://a.example/"},
        hsim \in H1AndSimilarity,
        h2 \in {<<>>, <<T_tips>>},
        h3 \in {<<>>, <<T_faq>>},
        links \in {4, 5},
        div \in {299, 300},
        body \in {799, 800},
        blocks \in {f \in Flags4 : Count4(f) <= 1},
        img \in ImageCounts,
        plan \in {f \in Flags3 : Count3(f) <= 1},
        upd \in BOOLEAN}

NoSummary == [top_keywords |-> <<>>]
Kw(k, n) == [kw |-> k, count |-> n]

Summaries ==
    { NoSummary,
      [top_keywords |-> <<Kw(T_seo, 3), Kw(T_blog, 2)>>],
      [top_keywords |-> <<Kw(T_news, 5), Kw(T_shop, 4), Kw(T_item, 3),
                          Kw(T_faq, 2), Kw(T_tips, 2), Kw(T_seo, 1)>>] }

AllFlags4(b) == [ol |-> b, ul |-> b, tb |-> b, cd |-> b]
AllFlags3(b) == [howto |-> b, faq |-> b, toc |-> b]

\* pages for the evaluator: a page passing or failing the checks that the
\* adjustments do not read, with every adjustment on each side of its limits
CtxPages ==
    {MkPage(url, title, meta,
            IF good THEN "" ELSE "noindex, nofollow",
            IF good THEN "https://a.example/" ELSE "",
            Headings(h1, IF good THEN <<T_tips>> ELSE <<>>, <<>>),
            IF good /\ h1 # <<>> THEN 1000 ELSE 0,
            lr[1], IF good /\ lr[1] > 0 THEN 1000 ELSE 0, lr[2], body,
            AllFlags4(good), IF good THEN <<0, 0>> ELSE <<5, 3>>,
            AllFlags3(good), good) :
        good \in BOOLEAN,
        url \in {<<>>, PathShallow, PathFive},
        title \in {T_SeoBlog, T_Widgets, T_FaqPage},
        h1 \in {<<>>, <<T_Widgets>>, <<T_SeoBlog, T_news>>},
        meta \in {<<>>, <<T_SEO>>, <<T_Widgets>>, <<T_seo, T_SEO, T_Widgets>>,
                  <<T_seo, T_SEO, T_seo>>, <<T_seo, T_blog, T_Widgets>>,
                  <<T_seo, T_news, T_shop, T_Widgets>>},
        lr \in {<<0, 0>>, <<2, 1000>>, <<3, 399>>, <<3, 400>>, <<5, 599>>,
                <<5, 600>>},
        body \in {0, 399, 400, 1999, 2000}}

\* no document
NoDoc == [nodes |-> <<>>]

IdlePage ==
    MkPage(<<>>, <<>>, <<>>, "", "", Headings(<<>>, <<>>, <<>>), 0, 0, 0, 0, 0,
           AllFlags4(FALSE), <<0, 0>>, AllFlags3(FALSE), FALSE)

NoResult == [returned |-> FALSE]

\* rag_function=None, and an LLM call that answers
DefaultWriter == [rag |-> "none", llm |-> "ok"]

\* nothing invoked, nothing returned, no time slept, no abort requested
ObsIdle ==
    /\ calls = {}
    /\ result = NoResult
    /\ clock = 0
    /\ fetch_times = <<>>
    /\ cancelled = FALSE
    /\ writer = DefaultWriter
    /\ enqueued = to_visit
    /\ popped = <<>>
    /\ depths = [i \in DOMAIN to_visit |-> 0]

\* the evaluation variables while a crawl is running
EvalIdle ==
    /\ page = IdlePage
    /\ structure_summary = NoSummary
    /\ scored = NotScored
    /\ evaluation = NotEvaluated
    /\ doc = NoDoc

\* the page served at a URL: its hrefs outside and inside navigation elements
UnknownPage == [known |-> FALSE, main |-> {}, nav |-> {}]
Page(m, n) == [known |-> TRUE, main |-> m, nav |-> n]

Internal(n) == 1..n
External == {-1}

NextUrl(u, n) == (u % n) + 1

\* the pages a site of n internal URLs may serve at u
PageChoices(u, n) ==
    LET all == {Href(v, FALSE) : v \in Internal(n) \cup External}
        mains == { {},
                   {Href(NextUrl(u, n), FALSE)},
                   {Href(StartUrl, TRUE), Href(u, TRUE), Href(u, FALSE),
                    Href(NextUrl(u, n), TRUE), Href(-1, TRUE)},
                   all }
        navs == { {}, all }
    IN  {Page(m, nv) : m \in mains, nv \in navs}

NoLast == [url |-> 0, kind |-> "none"]
NoTarget == [url |-> 0, fetched |-> FALSE]

Init ==
    /\ site = [u \in Internal(NInternal) |-> UnknownPage]
    /\ order \in Orders
    /\ max_pages \in 0..MaxPages
    /\ robots_outcome = "none"
    /\ robot_parser = NoParser
    /\ visited = {}
    /\ to_visit = <<StartUrl>>
    /\ pages_data = <<>>
    /\ fetched = <<>>
    /\ blocked = {}
    /\ failed = {}
    /\ last = NoLast
    /\ pc = "setup"
    /\ target = NoTarget
    /\ answer = "none"
    /\ EvalIdle
    /\ ObsIdle

\* robot_parser = _setup_robots_parser(base_domain, cfg)
SetupRobots ==
    /\ pc = "setup"
    /\ \E outcome \in RobotsOutcomes :
         \E rules \in (IF outcome = "ok" THEN SUBSET DOMAIN site ELSE {{}}) :
            /\ robots_outcome' = outcome
            /\ robot_parser' = SetupRobotsParser(outcome, rules)
    /\ pc' = "crawl"
    /\ UNCHANGED <<site, order, max_pages, visited, to_visit, pages_data,
                   fetched, blocked, failed, last, target, answer>>
    /\ UNCHANGED <<orderVars, evalVars, obsVars>>

\* the response of the site for url: the page it serves
Serve(url) ==
    IF site[url].known THEN {site[url]}
    ELSE PageChoices(url, Cardinality(DOMAIN site))

\* the links appended to the frontier by an iteration that popped its head
Added(queue, queue_after) ==
    SubSeq(queue_after, Len(queue), Len(queue_after))

\* the number of links followed from the start URL when url was enqueued
DepthOf(url, history, ds) ==
    ds[CHOOSE i \in DOMAIN history : history[i] = url]

\* one iteration that ends before the fetch: url already visited, or blocked
\* by robots.txt
CrawlSkip ==
    /\ pc = "crawl"
    /\ LoopGuard(to_visit, pages_data, max_pages)
    /\ LET url == Head(to_visit)
       IN  /\ url \in visited \/ RobotsBlocks(robot_parser, url)
           /\ IF url \in visited
              THEN /\ last' = [url |-> url, kind |-> "visited"]
                   /\ UNCHANGED <<visited, blocked>>
              ELSE /\ last' = [url |-> url, kind |-> "robots"]
                   /\ visited' = visited \cup {url}
                   /\ blocked' = blocked \cup {url}
    /\ to_visit' = Tail(to_visit)
    /\ popped' = Append(popped, Head(to_visit))
    /\ UNCHANGED <<enqueued, depths>>
    /\ UNCHANGED <<site, order, max_pages, robots_outcome, robot_parser,
                   pages_data, fetched, failed, pc, target, answer>>
    /\ UNCHANGED <<evalVars, obsVars>>

\* delay = float(cfg.get("CRAWL_DELAY", 1.0)), in tenths of a second
CrawlDelay == 10

SleepAfterNever(kind) == 0

\* time.sleep(delay) is reached only at the end of the try block
SleepAfter(kind) == IF kind = OkKind THEN CrawlDelay ELSE 0

\* one iteration whose fetch or extraction fails
CrawlFetchFail ==
    /\ pc = "crawl"
    /\ LoopGuard(to_visit, pages_data, max_pages)
    /\ LET url == Head(to_visit)
       IN  /\ url \notin visited
           /\ ~RobotsBlocks(robot_parser, url)
           /\ \E kind \in FailKinds :
                /\ last' = [url |-> url, kind |-> kind]
                /\ visited' = VisitedAfter(kind, visited, url)
                /\ pc' = IF kind \in ExceptionKinds /\ Handler(kind) = "unhandled"
                         THEN "raised" ELSE "crawl"
           /\ fetched' = Append(fetched, url)
           /\ failed' = failed \cup {url}
    /\ to_visit' = Tail(to_visit)
    /\ popped' = Append(popped, Head(to_visit))
    /\ UNCHANGED <<enqueued, depths>>
    /\ fetch_times' = Append(fetch_times, clock)
    /\ clock' = clock + SleepAfter(last'.kind)
    /\ UNCHANGED <<site, order, max_pages, robots_outcome, robot_parser,
                   pages_data, blocked, target, answer>>
    /\ UNCHANGED <<evalVars, calls, result, cancelled, writer>>

\* one iteration whose fetch returns status 200 and HTML, and whose extraction
\* succeeds
CrawlFetchOk ==
    /\ pc = "crawl"
    /\ LoopGuard(to_visit, pages_data, max_pages)
    /\ LET url == Head(to_visit)
       IN  /\ url \notin visited
           /\ ~RobotsBlocks(robot_parser, url)
           /\ \E pg \in Serve(url) :
                LET seen == VisitedAfter(OkKind, visited, url)
                    pages == Append(pages_data, [url |-> url])
                IN  /\ site' = [site EXCEPT ![url] = pg]
                    /\ visited' = seen
                    /\ pages_data' = pages
                    /\ to_visit' =
                         IF Len(pages) < max_pages
                         THEN Enqueue(Tail(to_visit),
                                      ExtractInternalLinks(pg, StartUrl, order),
                                      seen)
                         ELSE Tail(to_visit)
           /\ last' = [url |-> url, kind |-> OkKind]
           /\ fetched' = Append(fetched, url)
    /\ popped' = Append(popped, Head(to_visit))
    /\ enqueued' = enqueued \o Added(to_visit, to_visit')
    /\ depths' = depths \o [i \in DOMAIN Added(to_visit, to_visit') |->
                               DepthOf(Head(to_visit), enqueued, depths) + 1]
    /\ fetch_times' = Append(fetch_times, clock)
    /\ clock' = clock + SleepAfter(OkKind)
    /\ UNCHANGED <<order, max_pages, robots_outcome, robot_parser, blocked,
                   failed, pc, target, answer>>
    /\ UNCHANGED <<evalVars, calls, result, cancelled, writer>>

\* the loop ends; return pages_data
CrawlReturn ==
    /\ pc = "crawl"
    /\ ~LoopGuard(to_visit, pages_data, max_pages)
    /\ pc' = "done"
    /\ UNCHANGED <<site, order, max_pages, robots_outcome, robot_parser,
                   visited, to_visit, pages_data, fetched, blocked, failed,
                   last, target, answer>>
    /\ UNCHANGED <<orderVars, evalVars, obsVars>>

-----------------------------------------------------------------------------
(* the callers of _crawl_pages *)

\* if not pages_data / if not structure_pages
NoPagesNever(pages) == FALSE

NoPages(pages) == pages = <<>>

\* what the injected rag_function does, "none" when it is None, and what the
\* call of the LLM does
RagOutcomes == {"none", "ok", "raises", "no_answer_key", "not_a_dict", "not_seo"}
LlmOutcomes == {"ok", "raises"}

\* _generate_seo_analysis_report, _generate_single_page_report_direct: the
\* LLM's text, or a fixed message with the exception's text
LlmReport(llm) == IF llm = "ok" THEN "llm_report" ELSE "llm_error_message"

\* analyze_domain_seo_lightweight, step 5
DomainWriter(rag, llm) ==
    IF rag = "none"
    THEN [calls |-> {"llm"}, report |-> LlmReport(llm), hybrid_mode |-> FALSE]
    ELSE IF rag = "ok"
    THEN [calls |-> {"rag"}, report |-> "rag_answer", hybrid_mode |-> TRUE]
    ELSE [calls |-> {"rag", "llm"}, report |-> LlmReport(llm),
          hybrid_mode |-> FALSE]

\* analyze_single_page_with_context, step 7
SinglePageWriter(rag, llm) ==
    IF rag = "none"
    THEN [calls |-> {"llm"}, report |-> LlmReport(llm), hybrid_mode |-> FALSE]
    ELSE [calls |-> {"rag"},
          report |-> CASE rag \in {"ok", "not_seo"} -> "rag_answer"
                       [] rag = "no_answer_key" -> "rag_missing_message"
                       [] OTHER -> "rag_error_message",
          hybrid_mode |-> TRUE]

\* the reports that are the output of a language model
GeneratedReports == {"llm_report", "rag_answer"}

\* the result dict: the kind of text in "answer", the length of "sources",
\* "hybrid_mode", and whether the dict carries the computed scores
Result(report, sources, hybrid_mode, scores) ==
    [returned |-> TRUE, report |-> report, sources |-> sources,
     hybrid_mode |-> hybrid_mode, scores |-> scores]

\* the terminal failure results: a fixed message and no sources
FailureResult == Result("failure_message", 0, FALSE, FALSE)

\* if not pages_data / if not structure_pages: the terminal failure result
ReturnEmpty ==
    /\ pc = "done"
    /\ NoPages(pages_data)
    /\ answer' = "no_pages"
    /\ result' = FailureResult
    /\ pc' = "returned"
    /\ UNCHANGED <<site, order, max_pages, robots_outcome, robot_parser,
                   visited, to_visit, pages_data, fetched, blocked, failed,
                   last, target>>
    /\ UNCHANGED <<orderVars, evalVars, calls, clock, fetch_times, cancelled, writer>>

\* analyze_domain_seo_lightweight with at least one page: score every page,
\* have the report written, return
DomainReport ==
    /\ pc = "done"
    /\ ~NoPages(pages_data)
    /\ LET w == DomainWriter(writer.rag, writer.llm)
       IN  /\ calls' = calls \cup {"scorer"} \cup w.calls
           /\ result' = Result(w.report, Len(pages_data), w.hybrid_mode, TRUE)
    /\ answer' = "report"
    /\ pc' = "returned"
    /\ UNCHANGED <<site, order, max_pages, robots_outcome, robot_parser,
                   visited, to_visit, pages_data, fetched, blocked, failed,
                   last, target>>
    /\ UNCHANGED <<orderVars, evalVars, clock, fetch_times, cancelled, writer>>

TargetFetchKinds == {OkKind, "status_non_2xx", "conn_error"}

\* analyze_single_page_with_context, step 5: the target page is taken from the
\* crawl result, or else checked against robots.txt and fetched on its own
TargetResult(t, pages, rp, kind) ==
    IF \E i \in DOMAIN pages : pages[i].url = t
    THEN [fetched |-> FALSE, answer |-> "report"]
    ELSE IF RobotsBlocks(rp, t)
    THEN [fetched |-> FALSE, answer |-> "robots_blocked"]
    ELSE IF kind = "status_non_2xx"
    THEN [fetched |-> TRUE, answer |-> "status_failed"]
    ELSE IF kind = "conn_error"
    THEN [fetched |-> TRUE, answer |-> "error"]
    ELSE [fetched |-> TRUE, answer |-> "report"]

\* analyze_single_page_with_context with at least one page: summarise the
\* site, get the target page, evaluate it, have the report written, return
AnalyzeTarget ==
    /\ pc = "done"
    /\ ~NoPages(pages_data)
    /\ \E t \in DOMAIN site \cup External, kind \in TargetFetchKinds :
         LET r == TargetResult(t, pages_data, robot_parser, kind)
             w == SinglePageWriter(writer.rag, writer.llm)
         IN  /\ target' = [url |-> t, fetched |-> r.fetched]
             /\ answer' = r.answer
             /\ IF r.answer = "report"
                THEN /\ calls' = calls \cup {"summarizer", "evaluator", "scorer"}
                                       \cup w.calls
                     /\ result' = Result(w.report, 1, w.hybrid_mode, TRUE)
                ELSE /\ calls' = calls \cup {"summarizer"}
                     /\ result' = FailureResult
    /\ pc' = "returned"
    /\ UNCHANGED <<site, order, max_pages, robots_outcome, robot_parser,
                   visited, to_visit, pages_data, fetched, blocked, failed,
                   last>>
    /\ UNCHANGED <<orderVars, evalVars, clock, fetch_times, cancelled, writer>>

\* the caller asks to abort while the analysis is running; no code of
\* _crawl_pages reads the request
Cancel ==
    /\ pc = "crawl"
    /\ ~cancelled
    /\ cancelled' = TRUE
    /\ UNCHANGED <<orderVars, crawlVars, evalVars, calls, result, clock, fetch_times,
                   writer>>

Next ==
    \/ SetupRobots
    \/ CrawlSkip
    \/ CrawlFetchFail
    \/ CrawlFetchOk
    \/ CrawlReturn
    \/ ReturnEmpty
    \/ DomainReport
    \/ AnalyzeTarget

Spec == Init /\ [][Next]_vars

\* the analysis with a caller that may ask to abort it
NextCancel == Next \/ Cancel

SpecCancel == Init /\ [][NextCancel]_vars

\* the state when _crawl_pages has returned: no record, one, or two, with
\* every behaviour of rag_function and of the LLM
InitReport ==
    /\ site = [u \in Internal(NInternal) |-> Page({}, {})]
    /\ order = [rev |-> FALSE, rot |-> 0]
    /\ max_pages = MaxPages
    /\ \E outcome \in {"ok", "url_error"} :
         /\ robots_outcome = outcome
         /\ robot_parser = SetupRobotsParser(outcome, {NInternal})
    /\ \E n \in 0..2 :
         /\ pages_data = [i \in 1..n |-> [url |-> i]]
         /\ fetched = [i \in 1..n |-> i]
         /\ visited = 1..n
         /\ fetch_times = [i \in 1..n |-> (i - 1) * CrawlDelay]
         /\ clock = n * CrawlDelay
    /\ to_visit = <<>>
    /\ blocked = {}
    /\ failed = {}
    /\ last = NoLast
    /\ pc = "done"
    /\ target = NoTarget
    /\ answer = "none"
    /\ EvalIdle
    /\ calls = {}
    /\ result = NoResult
    /\ cancelled = FALSE
    /\ writer \in [rag : RagOutcomes, llm : LlmOutcomes]
    /\ enqueued = fetched
    /\ popped = fetched
    /\ depths = [i \in DOMAIN fetched |-> i - 1]

NextReport ==
    \/ ReturnEmpty
    \/ DomainReport
    \/ AnalyzeTarget

SpecReport == InitReport /\ [][NextReport]_vars

-----------------------------------------------------------------------------
(* Crawls of a fixed site on which nothing fails *)

AllPages(n) == UNION {PageChoices(u, n) : u \in Internal(n)}

\* every site of NInternal URLs whose pages are drawn from PageChoices
SmallSites ==
    {s \in [Internal(NInternal) -> AllPages(NInternal)] :
        \A u \in Internal(NInternal) : s[u] \in PageChoices(u, NInternal)}

Plain(S) == {Href(v, FALSE) : v \in S}

\* large sites: a hub linking to every URL, a hub linking to every other URL,
\* a hub whose links are all in its navigation, a chain, a complete graph
BigSites ==
    LET I == Internal(NBig)
        leaf == Page({}, {})
    IN  { [u \in I |-> IF u = StartUrl THEN Page(Plain(I), {}) ELSE leaf],
          [u \in I |-> IF u = StartUrl THEN Page(Plain(I \ {StartUrl}), {})
                       ELSE leaf],
          [u \in I |-> IF u = StartUrl THEN Page({}, Plain(I)) ELSE leaf],
          [u \in I |-> Page(Plain({NextUrl(u, NBig)}), Plain({StartUrl}))],
          [u \in I |-> Page(Plain(I \cup External), {})] }

\* the state at entry to _crawl_pages(start_url, base_domain, max_pages, None, cfg)
InitBudget ==
    /\ site \in SmallSites \cup BigSites
    /\ order \in Orders
    /\ max_pages \in 0..Cardinality(DOMAIN site)
    /\ robots_outcome = "url_error"
    /\ robot_parser = NoParser
    /\ visited = {}
    /\ to_visit = <<StartUrl>>
    /\ pages_data = <<>>
    /\ fetched = <<>>
    /\ blocked = {}
    /\ failed = {}
    /\ last = NoLast
    /\ pc = "crawl"
    /\ target = NoTarget
    /\ answer = "none"
    /\ EvalIdle
    /\ ObsIdle

NextBudget ==
    \/ CrawlFetchOk
    \/ CrawlReturn

SpecBudget == InitBudget /\ [][NextBudget]_vars

RECURSIVE CrawlLoop(_, _, _, _, _, _)
\* the loop of _crawl_pages on site s when no fetch fails and robot_parser is
\* None, in a process whose sets iterate in order o
CrawlLoop(s, limit, o, queue, seen, pages) ==
    IF ~LoopGuard(queue, pages, limit) THEN pages
    ELSE LET url == Head(queue)
             seen_after == VisitedAfter(OkKind, seen, url)
             pages_after == Append(pages, [url |-> url])
         IN  IF url \in seen
             THEN CrawlLoop(s, limit, o, Tail(queue), seen, pages)
             ELSE CrawlLoop(s, limit, o,
                            IF Len(pages_after) < limit
                            THEN Enqueue(Tail(queue),
                                         ExtractInternalLinks(s[url], StartUrl, o),
                                         seen_after)
                            ELSE Tail(queue),
                            seen_after, pages_after)

\* the list returned by _crawl_pages(start_url, base_domain, limit, None, cfg)
CrawlPages(s, limit, o) == CrawlLoop(s, limit, o, <<StartUrl>>, {}, <<>>)

\* the most fetches that fail in one crawl of a large site
MaxFailures == 1

\* the state at entry to _crawl_pages on a large site, with a small budget or
\* one that covers the site
InitTerm ==
    /\ site \in BigSites
    /\ order \in Orders
    /\ max_pages \in {0, 1, 2, 3, NBig}
    /\ robots_outcome = "url_error"
    /\ robot_parser = NoParser
    /\ visited = {}
    /\ to_visit = <<StartUrl>>
    /\ pages_data = <<>>
    /\ fetched = <<>>
    /\ blocked = {}
    /\ failed = {}
    /\ last = NoLast
    /\ pc = "crawl"
    /\ target = NoTarget
    /\ answer = "none"
    /\ EvalIdle
    /\ ObsIdle

\* an iteration whose fetch fails, on a site where few fetches fail
CrawlFetchFailFew ==
    /\ Cardinality(failed) < MaxFailures
    /\ CrawlFetchFail

NextTerm ==
    \/ CrawlFetchOk
    \/ CrawlFetchFailFew
    \/ CrawlReturn

\* one turn of the while loop as the frontier shows it: the head is popped,
\* or the loop is left
LoopTurn ==
    /\ pc = "crawl"
    /\ IF LoopGuard(to_visit, pages_data, max_pages)
       THEN popped' = Append(popped, Head(to_visit)) /\ pc' \in {"crawl", "raised"}
       ELSE popped' = popped /\ pc' = "done"

\* the loop runs on: requests.get returns or times out, so every turn ends
\* and the next one, or the return, follows
SpecTerm == InitTerm /\ [][NextTerm]_vars /\ WF_<<popped, pc>>(LoopTurn)

\* the same-host URLs linked from the page at u
LinkedFrom(u, withNav) ==
    {h.url : h \in site[u].main \cup (IF withNav THEN site[u].nav ELSE {})}
        \cap DOMAIN site

RECURSIVE Closure(_, _)
Closure(S, withNav) ==
    LET T == S \cup UNION {LinkedFrom(u, withNav) : u \in S}
    IN  IF T = S THEN S ELSE Closure(T, withNav)

\* the same-host URLs reachable from the start URL
Reachable(withNav) == Closure({StartUrl}, withNav)

-----------------------------------------------------------------------------
(* Crawls of a fixed site on which fetches may fail *)

\* number of URLs of the sites crawled to observe the order of the frontier
NOrder == 6

\* the links a page at u of such a site may have: none, the next URL, the
\* next two, or the two after those
ForwardLinks(u) ==
    << {}, {u + 1}, {u + 1, u + 2}, {u + 3, u + 4} >>

OrderSites ==
    { [u \in Internal(NOrder) |->
          Page(Plain(ForwardLinks(u)[c[u]] \cap Internal(NOrder)), {})] :
        c \in [Internal(NOrder) -> 1..4] }

\* the state at entry to _crawl_pages(start_url, base_domain, max_pages, rp, cfg)
\* with a robots.txt that disallows nothing or the second URL
InitOrder ==
    /\ site \in OrderSites
    /\ order \in Orders
    /\ max_pages = NOrder
    /\ robots_outcome = "ok"
    /\ \E rules \in {{}, {2}} : robot_parser = SetupRobotsParser("ok", rules)
    /\ visited = {}
    /\ to_visit = <<StartUrl>>
    /\ pages_data = <<>>
    /\ fetched = <<>>
    /\ blocked = {}
    /\ failed = {}
    /\ last = NoLast
    /\ pc = "crawl"
    /\ target = NoTarget
    /\ answer = "none"
    /\ EvalIdle
    /\ ObsIdle

NextOrder ==
    \/ CrawlSkip
    \/ CrawlFetchFail
    \/ CrawlFetchOk
    \/ CrawlReturn

SpecOrder == InitOrder /\ [][NextOrder]_vars

RECURSIVE Ball(_, _)
\* the URLs at most d links away from the start URL
Ball(S, d) ==
    IF d = 0 THEN S
    ELSE Ball(S \cup UNION {LinkedFrom(u, FALSE) : u \in S}, d - 1)

\* the link distance of u from the start URL on the site, -1 if unreachable
LinkDistance(u) ==
    LET ds == {d \in 0..Cardinality(DOMAIN site) : u \in Ball({StartUrl}, d)}
    IN  IF ds = {} THEN -1 ELSE CHOOSE d \in ds : \A e \in ds : d <= e

-----------------------------------------------------------------------------
(* The extractor on a document *)

K_sidebar == <<"s", "i", "d", "e", "b", "a", "r">>
K_hamburger == <<"h", "a", "m", "b", "u", "r", "g", "e", "r">>
K_main_content ==
    <<"m", "a", "i", "n", "-", "c", "o", "n", "t", "e", "n", "t">>

NoInfo ==
    [ld_json_types |-> <<>>, ogp_data |-> <<>>, twitter_data |-> <<>>,
     hreflang_links |-> <<>>, viewport_content |-> ""]
RichInfo ==
    [ld_json_types |-> <<"Article">>, ogp_data |-> <<"og:title">>,
     twitter_data |-> <<"twitter:card">>, hreflang_links |-> <<"en">>,
     viewport_content |-> "width=device-width"]

Doc(url, title, h1, h2, h3, robots, canonical, blocks, info, nodes) ==
    [url |-> url, title |-> title, meta |-> <<>>, h1 |-> h1, h2 |-> h2,
     h3 |-> h3, robots |-> robots, canonical |-> canonical, blocks |-> blocks,
     info |-> info, nodes |-> nodes]

\* the links counted as internal: outside navigation elements, on the
\* page's own host
CountedLinks(nodes) ==
    SelectSeq(AllLinks(nodes, 1),
              LAMBDA e : /\ ~IsNavigationElement(nodes, e.owner)
                         /\ e.link.host = "own")

\* anchor_texts: the non-empty texts of the counted links, lower-cased
AnchorTexts(nodes) ==
    LET with_text == SelectSeq(CountedLinks(nodes),
                               LAMBDA e : NonSpaceLen(e.link.text) > 0)
    IN  [k \in 1..Len(with_text) |-> Lower(with_text[k].link.text)]

\* internal_links = list(set(internal_links))
InternalLinks(nodes) ==
    {CountedLinks(nodes)[k].link.path : k \in 1..Len(CountedLinks(nodes))}

\* body_char_count = len(text_content_clean); without a main-content tag the
\* fallback walks the whole document, the <title> string included
BodyCharCount(d) ==
    CleanLen(d.nodes, TextParts(d.nodes))
    + (IF MainContentTag(d.nodes) = 0 THEN NonSpaceLen(d.title) ELSE 0)

\* a keyword family found in text_content
Mentions(d, mark) ==
    \E j \in TextParts(d.nodes) : mark \in d.nodes[j].text.marks

\* _extract_seo_elements
ExtractSeoElements(d) ==
    LET anchor_texts == AnchorTexts(d.nodes)
    IN  [url |-> d.url, title |-> d.title, meta_keywords_list |-> d.meta,
         robots_content |-> d.robots, canonical_url |-> d.canonical,
         headings |-> Headings(d.h1, Take(d.h2, 10), Take(d.h3, 10)),
         title_h1_similarity |-> TitleH1Sim(d.title, d.h1),
         internal_links_count |-> Cardinality(InternalLinks(d.nodes)),
         anchor_diversity |-> AnchorDiversity(anchor_texts),
         link_relevance_score |->
             LinkRelevanceScore(d.title, d.h1, anchor_texts),
         body_char_count |-> BodyCharCount(d),
         has_ordered_list |-> d.blocks.ol, has_unordered_list |-> d.blocks.ul,
         has_table |-> d.blocks.tb, has_code |-> d.blocks.cd,
         images_total_for_alt |-> 0, images_without_alt |-> 0,
         howto_like |-> Mentions(d, "howto"), faq_like |-> Mentions(d, "faq"),
         toc_like |-> Mentions(d, "toc"),
         updated_mention |-> Mentions(d, "updated"),
         ld_json_types |-> d.info.ld_json_types, ogp_data |-> d.info.ogp_data,
         twitter_data |-> d.info.twitter_data,
         hreflang_links |-> d.info.hreflang_links,
         viewport_content |-> d.info.viewport_content]

-----------------------------------------------------------------------------
(* The scorer and the evaluator on their own *)

\* the crawl variables while a page is scored or evaluated
CrawlRestIdle ==
    /\ site = <<>>
    /\ order = [rev |-> FALSE, rot |-> 0]
    /\ max_pages = 0
    /\ robots_outcome = "none"
    /\ robot_parser = NoParser
    /\ visited = {}
    /\ to_visit = <<>>
    /\ pages_data = <<>>
    /\ fetched = <<>>
    /\ blocked = {}
    /\ failed = {}
    /\ last = NoLast
    /\ target = NoTarget
    /\ answer = "none"
    /\ ObsIdle

CrawlIdle == CrawlRestIdle /\ pc = "eval"

InitScore ==
    /\ CrawlIdle
    /\ page \in ScorePages
    /\ structure_summary = NoSummary
    /\ scored = NotScored
    /\ evaluation = NotEvaluated
    /\ doc = NoDoc

\* scored_page = _apply_comprehensive_seo_scoring(page)
ApplyScoring ==
    /\ pc = "eval"
    /\ ~scored.done
    /\ ~evaluation.done
    /\ scored' = ApplyComprehensiveSeoScoring(page)
    /\ page' = ScoredPage(page)
    /\ UNCHANGED <<orderVars, crawlVars, structure_summary, evaluation, doc, obsVars>>

NextScore == ApplyScoring

SpecScore == InitScore /\ [][NextScore]_vars

InitCtx ==
    /\ CrawlIdle
    /\ page \in CtxPages
    /\ structure_summary \in Summaries
    /\ scored = NotScored
    /\ evaluation = NotEvaluated
    /\ doc = NoDoc

\* contextual_evaluation = _evaluate_page_with_site_context(page, summary);
\* the evaluator scores page_data.copy()
EvaluateContext ==
    /\ pc = "eval"
    /\ ~scored.done
    /\ ~evaluation.done
    /\ evaluation' = EvaluatePageWithSiteContext(page, structure_summary)
    /\ UNCHANGED <<orderVars, crawlVars, page, structure_summary, scored, doc, obsVars>>

NextCtx == EvaluateContext

SpecCtx == InitCtx /\ [][NextCtx]_vars

-----------------------------------------------------------------------------
(* The extractor followed by the scorer, on documents *)

\* four same-host links with two distinct anchor texts
FourLinks ==
    <<Link("own", 2, T_AllWidgets), Link("own", 3, T_AllWidgets),
      Link("own", 4, T_BuyOnline), Link("own", 5, T_BuyOnline)>>

LinkLists ==
    {<<>>, <<Link("own", 2, T_SeoTips)>>, <<Link("other", 9, T_SeoTips)>>,
     FourLinks}

\* a <main> holding total characters other than whitespace, links included
MainOf(total, links) ==
    LET bare == Node("main", "", <<>>, <<>>, 0, NoText, links)
    IN  <<[bare EXCEPT !.text = Text(total - NodeChars(bare), 100, {})]>>

\* documents with one <main>: titles, headings and links vary
ContentDocs ==
    {Doc(url, title, h1, h2, <<>>, robots, canonical,
         [ol |-> FALSE, ul |-> ul, tb |-> FALSE, cd |-> FALSE], info,
         MainOf(900, links)) :
        url \in {PathShallow, PathFour},
        title \in {T_BuyWidgetsOnline, T_SeoGuide, T_Widgets},
        h1 \in {<<>>, <<T_Widgets>>, <<T_SeoGuideForBeginners>>,
                <<T_Widgets, T_SeoGuide>>},
        h2 \in {<<>>, <<T_tips>>},
        robots \in {"", "noindex, nofollow"},
        canonical \in {"", "https://a.example/"},
        ul \in BOOLEAN,
        info \in {NoInfo, RichInfo},
        links \in LinkLists}

\* the kinds of element: name, role, class, id
ElementKinds ==
    {<<"div", "", <<>>, <<>>>>, <<"nav", "", <<>>, <<>>>>,
     <<"header", "", <<>>, <<>>>>, <<"div", "navigation", <<>>, <<>>>>,
     <<"div", "complementary", <<>>, <<>>>>, <<"div", "", K_sidebar, <<>>>>,
     <<"div", "", K_hamburger, <<>>>>, <<"div", "", <<>>, K_sidebar>>,
     <<"main", "", <<>>, <<>>>>, <<"article", "", <<>>, <<>>>>,
     <<"div", "", K_main_content, <<>>>>}

Element(kind, parent, chars, links) ==
    Node(kind[1], kind[2], kind[3], kind[4], parent,
         Text(chars - SumOver([k \in 1..Len(links) |->
                                  NonSpaceLen(links[k].text)], 1..Len(links)),
              10, {}),
         links)

OneLink(path) == {<<>>, <<Link("own", path, T_SeoTips)>>}

\* two or three elements, the second inside the first or beside it
LayoutNodes ==
    {<<Element(a, 0, ca, la), Element(b, pb, cb, lb)>> :
        a \in ElementKinds, b \in ElementKinds, pb \in {0, 1},
        ca \in {50, 500}, cb \in {30, 500},
        la \in OneLink(2), lb \in OneLink(3)}
    \cup
    {<<Element(a, 0, ca, <<>>), Element(b, 1, cb, lb),
       Element(c, 0, 50, <<Link("own", 4, T_SeoTips)>>)>> :
        a \in ElementKinds, b \in ElementKinds, c \in ElementKinds,
        ca \in {50, 500}, cb \in {30, 500}, lb \in OneLink(3)}

\* documents that differ in their element structure only
LayoutDocs ==
    {Doc(PathShallow, T_Widgets, <<T_Widgets>>, <<>>, <<>>, "", "",
         AllFlags4(FALSE), NoInfo, nodes) : nodes \in LayoutNodes}

InitExtract ==
    /\ CrawlRestIdle
    /\ pc = "extract"
    /\ doc \in ContentDocs \cup LayoutDocs
    /\ page = IdlePage
    /\ structure_summary = NoSummary
    /\ scored = NotScored
    /\ evaluation = NotEvaluated

\* page_info = _extract_seo_elements(soup, url)
ExtractElements ==
    /\ pc = "extract"
    /\ page' = ExtractSeoElements(doc)
    /\ pc' = "eval"
    /\ UNCHANGED <<crawlRest, structure_summary, scored, evaluation, doc,
                   obsVars, orderVars>>

NextExtract == ExtractElements \/ ApplyScoring \/ EvaluateContext

SpecExtract == InitExtract /\ [][NextExtract]_vars

-----------------------------------------------------------------------------
(* analyze_domain_seo_lightweight on extracted pages: scoring and the result *)

\* p.get(key, default)
Get(p, key, default) == IF key \in DOMAIN p THEN p[key] ELSE default

\* None
None == "None"

RECURSIVE SumSeq(_)
\* sum(...) over a list of numbers
SumSeq(xs) == IF xs = <<>> THEN 0 ELSE Head(xs) + SumSeq(Tail(xs))

\* max(xs, default=0) and min(xs, default=0)
MaxOf(xs) ==
    IF xs = <<>> THEN 0
    ELSE CHOOSE x \in Range(xs) : \A y \in Range(xs) : x >= y
MinOf(xs) ==
    IF xs = <<>> THEN 0
    ELSE CHOOSE x \in Range(xs) : \A y \in Range(xs) : x <= y

\* one entry of "sources"
Source(pg) ==
    [url |-> pg.url,
     score |-> Get(pg, "score", None),
     comprehensive_score |-> Get(pg, "comprehensive_score", None),
     category_scores |-> Get(pg, "category_scores", None),
     check_results |-> Get(pg, "check_results", None)]

\* "domain_scores": the average, in tenths, the maximum and the minimum of
\* p.get("score", 0) over the scored pages
DomainScores(scored_pages) ==
    LET scores == [i \in DOMAIN scored_pages |->
                      Get(scored_pages[i], "score", 0)]
    IN  [avg_score |-> RoundTenths(SumSeq(scores), Len(scored_pages)),
         max_score |-> MaxOf(scores),
         min_score |-> MinOf(scores)]

\* the most pages in a crawl result that is scored
MaxDomainPages == 3

\* extracted pages that earn different scores
DomainPages ==
    {MkPage(PathShallow, T_Widgets, <<>>, robots, canonical,
            Headings(<<T_Widgets>>, <<>>, <<>>), 1000, 0, 0, 500, body,
            AllFlags4(FALSE), <<0, 0>>, AllFlags3(FALSE), FALSE) :
        robots \in {"", "noindex, nofollow"},
        canonical \in {"", "https://a.example/"},
        body \in {0, 800}}

RECURSIVE DomainPageLists(_)
\* the lists of at most n extracted pages
DomainPageLists(n) ==
    IF n = 0 THEN {<<>>}
    ELSE DomainPageLists(n - 1)
         \cup {Append(l, pg) :
                  l \in {k \in DomainPageLists(n - 1) : Len(k) = n - 1},
                  pg \in DomainPages}

\* the state when _crawl_pages has returned a list of extracted pages
InitDomain ==
    /\ site = <<>>
    /\ order = [rev |-> FALSE, rot |-> 0]
    /\ max_pages = MaxDomainPages
    /\ robots_outcome = "url_error"
    /\ robot_parser = NoParser
    /\ visited = {}
    /\ to_visit = <<>>
    /\ pages_data \in DomainPageLists(MaxDomainPages)
    /\ fetched = <<>>
    /\ blocked = {}
    /\ failed = {}
    /\ last = NoLast
    /\ target = NoTarget
    /\ answer = "none"
    /\ pc = "done"
    /\ EvalIdle
    /\ ObsIdle

\* analyze_domain_seo_lightweight, steps 4 to 6: every page is scored in
\* place, the report is written, and the result is built
ScoreDomain ==
    /\ pc = "done"
    /\ ~NoPages(pages_data)
    /\ LET scored_pages == [i \in DOMAIN pages_data |-> ScoredPage(pages_data[i])]
           w == DomainWriter(writer.rag, writer.llm)
       IN  /\ pages_data' = scored_pages
           /\ calls' = calls \cup {"scorer"} \cup w.calls
           /\ result' = [returned |-> TRUE,
                         report |-> w.report,
                         sources |-> [i \in DOMAIN scored_pages |->
                                         Source(scored_pages[i])],
                         hybrid_mode |-> w.hybrid_mode,
                         domain_scores |-> DomainScores(scored_pages)]
    /\ answer' = "report"
    /\ pc' = "returned"
    /\ UNCHANGED <<site, order, max_pages, robots_outcome, robot_parser,
                   visited, to_visit, fetched, blocked, failed, last, target>>
    /\ UNCHANGED <<orderVars, evalVars, clock, fetch_times, cancelled, writer>>

NextDomain ==
    \/ ReturnEmpty
    \/ ScoreDomain

SpecDomain == InitDomain /\ [][NextDomain]_vars

-----------------------------------------------------------------------------
(* _summarize_site_structure *)

T_docs == <<"d", "o", "c", "s">>
T_help == <<"h", "e", "l", "p">>
T_jp == <<"j", "p">>

\* path_parts = [p for p in path.split("/") if p and len(p) > 2]
PathParts(url) == SelectSeq(url, LAMBDA p : Len(p) > 2)

RECURSIVE AllPathKeywords(_)
\* all_path_keywords after the loop over pages
AllPathKeywords(pages) ==
    IF pages = <<>> THEN <<>>
    ELSE PathParts(Head(pages).url) \o AllPathKeywords(Tail(pages))

RECURSIVE CounterKeys(_, _)
\* the keys of Counter(words), in the order they were first seen
CounterKeys(words, seen) ==
    IF words = <<>> THEN <<>>
    ELSE IF Head(words) \in seen THEN CounterKeys(Tail(words), seen)
    ELSE <<Head(words)>> \o CounterKeys(Tail(words), seen \cup {Head(words)})

\* Counter(words)[k]
CountOf(words, k) == Cardinality({i \in DOMAIN words : words[i] = k})

RECURSIVE InsertBeforeTies(_, _)
InsertBeforeTies(sorted, item) ==
    IF sorted = <<>> THEN <<item>>
    ELSE IF Head(sorted).count > item.count
    THEN <<Head(sorted)>> \o InsertBeforeTies(Tail(sorted), item)
    ELSE <<item>> \o sorted

RECURSIVE InsertByCount(_, _)
\* a stable sort by decreasing count keeps equal counts in their order
InsertByCount(sorted, item) ==
    IF sorted = <<>> THEN <<item>>
    ELSE IF Head(sorted).count >= item.count
    THEN <<Head(sorted)>> \o InsertByCount(Tail(sorted), item)
    ELSE <<item>> \o sorted

RECURSIVE SortByCount(_, _)
SortByCount(items, sorted) ==
    IF items = <<>> THEN sorted
    ELSE SortByCount(Tail(items), InsertByCount(sorted, Head(items)))

\* Counter(words).most_common(n)
MostCommon(words, n) ==
    LET keys == CounterKeys(words, {})
        items == [i \in DOMAIN keys |-> Kw(keys[i], CountOf(words, keys[i]))]
    IN  Take(SortByCount(items, <<>>), n)

\* depth_map
DepthMap(pages) ==
    [d \in {PageDepth(pages[i].url) : i \in DOMAIN pages} |->
        Cardinality({i \in DOMAIN pages : PageDepth(pages[i].url) = d})]

\* the sum of a field over the pages
RECURSIVE Total(_, _)
Total(pages, field) ==
    IF pages = <<>> THEN 0 ELSE Head(pages)[field] + Total(Tail(pages), field)

\* _summarize_site_structure; the averages are held in tenths
SummarizeSiteStructure(pages) ==
    LET page_count == Len(pages)
    IN  [page_count |-> page_count,
         depth_distribution |-> DepthMap(pages),
         top_keywords |-> MostCommon(AllPathKeywords(pages), 10),
         avg_internal_links |->
            IF page_count > 0
            THEN RoundTenths(Total(pages, "internal_links_count"), page_count)
            ELSE 0,
         avg_word_count |->
            IF page_count > 0
            THEN RoundTenths(Total(pages, "body_char_count"), page_count)
            ELSE 0]

\* the most pages given to the summarizer
MaxSummaryPages == 3

\* URL paths: the root, short and long segments, repeated segments, and
\* eleven different long segments between the two widest
SummaryPaths ==
    { <<>>, PathShallow, <<T_jp, T_seo>>, <<T_help, T_help>>,
      <<T_seo, T_blog, T_news, T_shop, T_item, T_faq>>,
      <<T_tips, T_Widgets, T_SEO, T_docs, T_help, T_jp>>,
      <<T_docs, T_jp, T_docs>> }

\* a crawled page at url, as far as the summarizer reads it
SummaryPage(url) ==
    [url |-> url, internal_links_count |-> Len(url),
     body_char_count |-> 150 * Len(url) + 25]

RECURSIVE PageLists(_)
\* the lists of at most n pages
PageLists(n) ==
    IF n = 0 THEN {<<>>}
    ELSE PageLists(n - 1)
         \cup {Append(l, SummaryPage(u)) :
                  l \in {k \in PageLists(n - 1) : Len(k) = n - 1},
                  u \in SummaryPaths}

\* the state before structure_summary = _summarize_site_structure(pages)
InitSummary ==
    /\ site = <<>>
    /\ order = [rev |-> FALSE, rot |-> 0]
    /\ max_pages = MaxSummaryPages
    /\ robots_outcome = "none"
    /\ robot_parser = NoParser
    /\ visited = {}
    /\ to_visit = <<>>
    /\ pages_data \in PageLists(MaxSummaryPages)
    /\ fetched = <<>>
    /\ blocked = {}
    /\ failed = {}
    /\ last = NoLast
    /\ target = NoTarget
    /\ answer = "none"
    /\ pc = "summarize"
    /\ EvalIdle
    /\ ObsIdle

\* structure_summary = _summarize_site_structure(structure_pages)
Summarize ==
    /\ pc = "summarize"
    /\ structure_summary' = SummarizeSiteStructure(pages_data)
    /\ pc' = "summarized"
    /\ UNCHANGED <<crawlRest, page, scored, evaluation, doc, obsVars,
                   orderVars>>

NextSummary == Summarize

SpecSummary == InitSummary /\ [][NextSummary]_vars

-----------------------------------------------------------------------------
(* Claims *)

\* C1: within one call of _crawl_pages no URL is handed to the HTTP fetch
\* more than once, whatever the site and the fetch outcomes.
C1_NoUrlFetchedTwice ==
    \A i, j \in DOMAIN fetched : i # j => fetched[i] # fetched[j]

\* a URL whose fetch failed is linked again by a page fetched later
C1_Witness ==
    \E i, j \in DOMAIN fetched :
        /\ i < j
        /\ fetched[i] \in failed
        /\ site[fetched[j]].known
        /\ Href(fetched[i], FALSE) \in site[fetched[j]].main
        /\ Len(pages_data) < max_pages

\* C2: _crawl_pages never fetches, and never enqueues, a URL whose host
\* differs from the base domain's host.
C2_DomainContainment ==
    /\ \A i \in DOMAIN fetched : Netloc(fetched[i]) = Netloc(StartUrl)
    /\ \A i \in DOMAIN to_visit : Netloc(to_visit[i]) = Netloc(StartUrl)

\* a crawled page whose links were collected links to another host
C2_Witness ==
    \E i \in DOMAIN pages_data :
        /\ i < max_pages
        /\ \E h \in site[pages_data[i].url].main : Netloc(h.url) = OtherHost
        /\ pc = "done"

\* C3: at every point of a crawl the number of page records collected is at
\* most max_pages.
C3_BudgetRespected == Len(pages_data) <= max_pages

\* the budget is reached while URLs are still waiting in the frontier
C3_Witness ==
    /\ max_pages >= 1
    /\ Len(pages_data) = max_pages
    /\ to_visit # <<>>
    /\ pc = "done"

\* C4 as stated: if no fetch fails and at least max_pages same-domain URLs
\* are reachable from the start URL, exactly max_pages records are returned.
C4_ExactBudgetAsStated ==
    (pc = "done" /\ failed = {} /\ blocked = {}
        /\ Cardinality(Reachable(TRUE)) >= max_pages)
    => Len(pages_data) = max_pages

\* C4 amended: if no fetch fails, max_pages is at most the per-page link cap
\* of 20, and at least max_pages same-host URLs are reachable from the start
\* URL through links outside navigation elements, exactly max_pages records
\* are returned.
C4_ExactBudget ==
    (pc = "done" /\ failed = {} /\ blocked = {}
        /\ max_pages <= MaxLinksPerPage
        /\ Cardinality(Reachable(FALSE)) >= max_pages)
    => Len(pages_data) = max_pages

\* a crawl with budget 5 or more of a site whose start page has more links
\* than the cap lets through
C4_Witness ==
    /\ pc = "done"
    /\ failed = {}
    /\ max_pages >= 5
    /\ max_pages <= MaxLinksPerPage
    /\ Cardinality(LinkedFrom(StartUrl, FALSE)) > MaxLinksPerPage
    /\ Len(pages_data) = max_pages

\* C5: a failure on one URL (status, content type, timeout, connection
\* error, exception during extraction, robots block) never leaves
\* _crawl_pages as an exception and never ends the crawl: the URL is marked
\* visited, the records collected so far are unchanged, and the loop goes on
\* with the rest of the frontier.
C5_FailureIsolated ==
    [][ (/\ pc = "crawl"
         /\ fetched' # fetched \/ blocked' # blocked
         /\ last'.kind \in FailKinds \cup {"robots"})
        => (/\ last'.url \in visited'
            /\ pages_data' = pages_data
            /\ to_visit' = Tail(to_visit)
            /\ pc' = "crawl") ]_vars

\* extraction raised on one page while records were already collected and
\* URLs are still waiting
C5_Witness ==
    /\ last.kind = "extract_error"
    /\ pages_data # <<>>
    /\ to_visit # <<>>
    /\ pc = "crawl"

\* C6: when robots.txt was loaded, no URL it disallows is fetched: in
\* _crawl_pages such a URL is marked visited and skipped, and a disallowed
\* target page of analyze_single_page_with_context is not fetched and the
\* robots-blocked result is returned.
C6_RobotsRespected ==
    robots_outcome = "ok" =>
        /\ \A i \in DOMAIN fetched : fetched[i] \notin robot_parser.disallowed
        /\ visited \cap robot_parser.disallowed = blocked
        /\ blocked \cap Range(fetched) = {}
        /\ target.url \in robot_parser.disallowed =>
              ~target.fetched /\ answer = "robots_blocked"

\* a crawl that skipped a disallowed URL, collected pages, and was then asked
\* for a disallowed target page
C6_Witness ==
    /\ robots_outcome = "ok"
    /\ blocked # {}
    /\ pages_data # <<>>
    /\ target.url \in robot_parser.disallowed
    /\ answer = "robots_blocked"

\* C7: the robots gate fails open: if fetching or parsing robots.txt fails,
\* no URL is skipped or refused for policy reasons in that session.
C7_FailOpen ==
    robots_outcome \in RobotsFailures =>
        blocked = {} /\ answer # "robots_blocked"

RECURSIVE SumValues(_, _)
\* the sum of f[k] over the keys in K
SumValues(f, K) ==
    IF K = {} THEN 0
    ELSE LET k == CHOOSE x \in K : TRUE
         IN  f[k] + SumValues(f, K \ {k})

\* C8: the contextual score equals clamp(base_score + sum of the values in
\* context_adjustments, 0, 100), and so lies in 0..100, for every page and
\* site summary.
C8_ContextualScoreClamped ==
    evaluation.done =>
        LET adj == evaluation.context_adjustments
            x == evaluation.base_score + SumValues(adj, DOMAIN adj)
        IN  /\ evaluation.contextual_score =
                 (IF x < 0 THEN 0 ELSE IF x > 100 THEN 100 ELSE x)
            /\ evaluation.contextual_score \in 0..100

\* all five adjustments are negative and take the sum below zero
C8_Witness ==
    /\ evaluation.done
    /\ Cardinality(DOMAIN evaluation.context_adjustments) = 5
    /\ \A k \in DOMAIN evaluation.context_adjustments :
          evaluation.context_adjustments[k] < 0
    /\ evaluation.base_score
         + SumValues(evaluation.context_adjustments,
                     DOMAIN evaluation.context_adjustments) < 0
    /\ evaluation.contextual_score = 0

\* the rubric as the specification lists it: which checks a page passes
RubricPassed(p) ==
    [indexable |-> p.robots_content # "noindex, nofollow",
     canonical |-> p.canonical_url # "",
     url_depth |-> Len(p.url) <= 3,
     headings_hierarchy |->
        Len(p.headings.h1) > 0
        /\ (Len(p.headings.h2) > 0 \/ Len(p.headings.h3) > 0),
     internal_links |->
        p.internal_links_count >= 5 /\ p.anchor_diversity >= 300,
     body_words |-> p.body_char_count >= 800,
     title_h1_align |-> p.title_h1_similarity >= 500,
     readability_blocks |->
        TRUE \in {p.has_ordered_list, p.has_unordered_list, p.has_table,
                  p.has_code},
     alt_ratio |->
        \/ p.images_total_for_alt = 0
        \/ 10 * (p.images_total_for_alt - p.images_without_alt)
              >= 6 * p.images_total_for_alt,
     h1_present |-> Len(p.headings.h1) > 0,
     howto_faq_toc |-> TRUE \in {p.howto_like, p.faq_like, p.toc_like},
     freshness |-> p.updated_mention]

RubricWeights ==
    [indexable |-> 10, canonical |-> 8, url_depth |-> 6,
     headings_hierarchy |-> 8, internal_links |-> 8,
     body_words |-> 10, title_h1_align |-> 8, readability_blocks |-> 10,
     alt_ratio |-> 6, h1_present |-> 6, howto_faq_toc |-> 10,
     freshness |-> 10]

RubricPoints(p) ==
    SumValues([k \in DOMAIN RubricWeights |->
                  IF RubricPassed(p)[k] THEN RubricWeights[k] ELSE 0],
              DOMAIN RubricWeights)

\* C9: the comprehensive score is the sum of the weights of the passed checks
\* of the fixed rubric, lies in 0..100, equals technical + content + planning,
\* and each category percentage equals score / max * 100.
C9_ScoreIsRubricSum ==
    scored.done =>
        LET cs == scored.category_scores
        IN  /\ scored.comprehensive_score = RubricPoints(page)
            /\ scored.comprehensive_score \in 0..100
            /\ scored.comprehensive_score =
                 cs.technical.score + cs.content.score + cs.planning.score
            /\ \A c \in DOMAIN cs :
                 /\ cs[c].max = (IF c = "planning" THEN 20 ELSE 40)
                 /\ cs[c].percentage * cs[c].max = 1000 * cs[c].score

\* a page scoring 32 + 40 + 0
C9_Witness ==
    /\ scored.done
    /\ scored.category_scores.technical.score = 32
    /\ scored.category_scores.content.score = 40
    /\ scored.category_scores.planning.score = 0
    /\ scored.comprehensive_score = 72

\* the pages that differ from p in one signal
SignalVariants(p) ==
    LET V(name, q) == [signal |-> name, page |-> q]
        hs == p.headings
    IN  {V("robots_content", [p EXCEPT !.robots_content = v]) :
            v \in {"", "noindex, nofollow"} \ {p.robots_content}}
        \cup {V("canonical_url", [p EXCEPT !.canonical_url = v]) :
            v \in {"", "https://a.example/"} \ {p.canonical_url}}
        \cup {V("url", [p EXCEPT !.url = v]) :
            v \in {PathShallow, PathFour} \ {p.url}}
        \cup {V("h1", [p EXCEPT !.headings.h1 = v]) :
            v \in (IF p.title_h1_similarity = 0
                   THEN {<<>>, <<T_Widgets>>} \ {hs.h1} ELSE {})}
        \cup {V("h2", [p EXCEPT !.headings.h2 = v]) :
            v \in {<<>>, <<T_tips>>} \ {hs.h2}}
        \cup {V("h3", [p EXCEPT !.headings.h3 = v]) :
            v \in {<<>>, <<T_faq>>} \ {hs.h3}}
        \cup {V("title_h1_similarity", [p EXCEPT !.title_h1_similarity = v]) :
            v \in (IF hs.h1 # <<>>
                   THEN {0, 499, 500} \ {p.title_h1_similarity} ELSE {})}
        \cup {V("internal_links_count", [p EXCEPT !.internal_links_count = v]) :
            v \in {4, 5} \ {p.internal_links_count}}
        \cup {V("anchor_diversity", [p EXCEPT !.anchor_diversity = v]) :
            v \in {299, 300} \ {p.anchor_diversity}}
        \cup {V("body_char_count", [p EXCEPT !.body_char_count = v]) :
            v \in {799, 800} \ {p.body_char_count}}
        \cup {V("has_ordered_list",
                [p EXCEPT !.has_ordered_list = ~p.has_ordered_list]),
              V("has_unordered_list",
                [p EXCEPT !.has_unordered_list = ~p.has_unordered_list]),
              V("has_table", [p EXCEPT !.has_table = ~p.has_table]),
              V("has_code", [p EXCEPT !.has_code = ~p.has_code]),
              V("howto_like", [p EXCEPT !.howto_like = ~p.howto_like]),
              V("faq_like", [p EXCEPT !.faq_like = ~p.faq_like]),
              V("toc_like", [p EXCEPT !.toc_like = ~p.toc_like]),
              V("updated_mention",
                [p EXCEPT !.updated_mention = ~p.updated_mention])}
        \cup {V("images_without_alt", [p EXCEPT !.images_without_alt = v]) :
            v \in (IF p.images_total_for_alt = 5
                   THEN {2, 3} \ {p.images_without_alt} ELSE {})}

\* the outcome of the twelve rubric checks in a scoring result
RubricOutcome(r) ==
    LET cr == r.check_results
    IN  [indexable |-> cr.indexable, canonical |-> cr.canonical,
         url_depth |-> cr.url_shallow,
         headings_hierarchy |-> cr.headings_hierarchy,
         internal_links |-> cr.internal_links_min /\ cr.anchor_diversity_min,
         body_words |-> cr.body_words_enough,
         title_h1_align |-> cr.title_h1_aligned,
         readability_blocks |-> cr.readability_blocks,
         alt_ratio |-> cr.alt_ok, h1_present |-> cr.h1_exists,
         howto_faq_toc |-> cr.howto_faq_toc, freshness |-> cr.freshness_sign]

\* the rubric checks on which two scoring results differ
Flipped(r1, r2) ==
    {k \in DOMAIN RubricWeights : RubricOutcome(r1)[k] # RubricOutcome(r2)[k]}

\* the weight of check k, negative when r2 fails it
SignedWeight(r2) ==
    [k \in DOMAIN RubricWeights |->
        IF RubricOutcome(r2)[k] THEN RubricWeights[k] ELSE 0 - RubricWeights[k]]

\* body_char_count 799 in p and 800 in q
Body799To800(p, q) == p.body_char_count = 799 /\ q.body_char_count = 800

\* C10 as stated: raising body_char_count from 799 to 800 adds exactly 10, and
\* moving any one signal across a check's threshold changes only that check's
\* result and the score by exactly that check's weight.
C10_SingleCheckAsStated ==
    scored.done =>
        \A v \in SignalVariants(page) :
            LET r2 == ApplyComprehensiveSeoScoring(v.page)
                F == Flipped(scored, r2)
                delta == r2.comprehensive_score - scored.comprehensive_score
            IN  /\ Body799To800(page, v.page) => delta = 10
                /\ F # {} =>
                     /\ Cardinality(F) = 1
                     /\ \A k \in F : delta = SignedWeight(r2)[k]

\* C10 amended: raising body_char_count from 799 to 800 adds exactly 10;
\* changing one signal changes the score by exactly the weights of the rubric
\* checks that flip, and at most one check flips, except that H1 presence
\* feeds two checks, H1-present (6) and heading hierarchy (8), and may flip
\* both.
C10_ThresholdCrossing ==
    scored.done =>
        \A v \in SignalVariants(page) :
            LET r2 == ApplyComprehensiveSeoScoring(v.page)
                F == Flipped(scored, r2)
                delta == r2.comprehensive_score - scored.comprehensive_score
            IN  /\ Body799To800(page, v.page) =>
                     delta = 10 /\ F = {"body_words"}
                /\ delta = SumValues(SignedWeight(r2), F)
                /\ v.signal # "h1" => Cardinality(F) <= 1
                /\ v.signal = "h1" =>
                     /\ "h1_present" \in F
                     /\ F \subseteq {"h1_present", "headings_hierarchy"}

\* a scored page with 799 characters and an H2 but no H1: raising the count
\* flips one check, adding an H1 flips two
C10_Witness ==
    /\ scored.done
    /\ page.body_char_count = 799
    /\ page.headings.h1 = <<>>
    /\ page.headings.h2 # <<>>
    /\ \E v \in SignalVariants(page) :
          /\ v.signal = "h1"
          /\ Cardinality(Flipped(scored,
                                 ApplyComprehensiveSeoScoring(v.page))) = 2

\* the example page: H1 "Widgets", title "Buy Widgets Online", 900 characters
\* of main content, one <ul>, four internal links with two distinct anchor
\* texts, a canonical tag, no robots meta; with or without an H2
C11_ExampleDoc(h2) ==
    Doc(PathShallow, T_BuyWidgetsOnline, <<T_Widgets>>, h2, <<>>, "",
        "https://a.example/",
        [ol |-> FALSE, ul |-> TRUE, tb |-> FALSE, cd |-> FALSE], NoInfo,
        MainOf(900, FourLinks))

\* C11 as stated: the example page scores Technical >= 32, Content = 40,
\* Planning = 0 and comprehensive score 72.
C11_ExampleAsStated ==
    (scored.done /\ doc \in {C11_ExampleDoc(<<>>), C11_ExampleDoc(<<T_tips>>)})
        => /\ scored.category_scores.technical.score >= 32
           /\ scored.category_scores.content.score = 40
           /\ scored.category_scores.planning.score = 0
           /\ scored.comprehensive_score = 72

\* C11 amended: the title/H1 similarity of the example page is 1/3, below 0.5,
\* so it scores Content = 32, Planning = 0, Technical = 32 with an H2 (24
\* without), and comprehensive score 64 (56 without an H2).
C11_Example ==
    \A h2 \in {<<>>, <<T_tips>>} :
        (scored.done /\ doc = C11_ExampleDoc(h2))
            => /\ page.body_char_count = 900
               /\ page.internal_links_count = 4
               /\ page.anchor_diversity = 500
               /\ page.title_h1_similarity = 333
               /\ scored.category_scores.technical.score =
                      (IF h2 = <<>> THEN 24 ELSE 32)
               /\ scored.category_scores.content.score = 32
               /\ scored.category_scores.planning.score = 0
               /\ scored.comprehensive_score = (IF h2 = <<>> THEN 56 ELSE 64)

\* the example page with an H2 has been extracted and scored
C11_Witness ==
    /\ scored.done
    /\ doc = C11_ExampleDoc(<<T_tips>>)
    /\ scored.comprehensive_score = 64

\* C12: for title "SEO Guide", H1 "SEO Guide for Beginners" and the single
\* anchor "seo tips", the page keyword set is {seo, guide, beginners}, the
\* anchor is counted relevant and link_relevance_score is 1.0.
C12_RelevanceExample ==
    (/\ pc = "eval"
     /\ doc.title = T_SeoGuide
     /\ doc.h1 = <<T_SeoGuideForBeginners>>
     /\ AnchorTexts(doc.nodes) = <<T_SeoTips>>)
        => /\ PageKeywords(doc.title, doc.h1)
                = {T_seo, <<"g", "u", "i", "d", "e">>,
                   <<"b", "e", "g", "i", "n", "n", "e", "r", "s">>}
           /\ page.link_relevance_score = 1000

\* C13: when the crawl yields zero page records, the analysis returns the
\* terminal failure result, a fixed explanation with an empty sources list,
\* and has invoked neither the scorer, the summarizer nor a report writer.
C13_EmptyCrawlFails ==
    (pc = "returned" /\ pages_data = <<>>)
        => /\ answer = "no_pages"
           /\ result.returned
           /\ result.report = "failure_message"
           /\ result.sources = 0
           /\ calls \cap {"scorer", "summarizer", "evaluator", "rag", "llm"} = {}

\* a crawl that fetched at least one URL, got no record, and returned
C13_Witness ==
    /\ pc = "returned"
    /\ pages_data = <<>>
    /\ fetched # <<>>
    /\ result.returned
    /\ answer = "no_pages"

\* the report writer failed: rag_function raised or returned a malformed or
\* non-SEO result, or the LLM was called and raised
WriterFailed ==
    \/ writer.rag \in {"raises", "no_answer_key", "not_a_dict", "not_seo"}
    \/ "llm" \in calls /\ writer.llm = "raises"

\* the texts the code itself composes, and the texts that state the scores
\* (a language model is handed the scores in its prompt; the fixed messages
\* contain none)
DeterministicTexts ==
    {"failure_message", "llm_error_message", "rag_error_message",
     "rag_missing_message"}
TextsStatingScores == GeneratedReports

\* C14: if the report writer fails, the analysis still completes and returns
\* a report written by a deterministic fallback text generator that states
\* the computed scores.
C14_DeterministicFallback ==
    (pc = "returned" /\ answer = "report" /\ WriterFailed)
        => /\ result.returned
           /\ result.scores
           /\ result.report \in DeterministicTexts
           /\ result.report \in TextsStatingScores

\* the i-th fetch of the crawl produced a page record
FetchSucceeded(i) == \E k \in DOMAIN pages_data : pages_data[k].url = fetched[i]

\* C15: after every successful fetch of _crawl_pages the configured delay
\* elapses before the next fetch is issued: a later fetch starts at least
\* CRAWL_DELAY after any earlier fetch that produced a page record.
C15_DelayAfterSuccess ==
    /\ Len(fetch_times) = Len(fetched)
    /\ \A i, j \in DOMAIN fetched :
          (i < j /\ FetchSucceeded(i))
              => fetch_times[j] - fetch_times[i] >= CrawlDelay

\* a successful fetch followed by another fetch, and a failed one followed by
\* a fetch with no delay between them
C15_Witness ==
    \E i, j \in DOMAIN fetched :
        /\ i + 1 < j
        /\ FetchSucceeded(i)
        /\ ~FetchSucceeded(i + 1)
        /\ fetch_times[j] = fetch_times[i + 1]
        /\ fetch_times[i + 1] - fetch_times[i] = CrawlDelay

\* C16: the caller can abort a crawl between two frontier pops: once the
\* cancellation has been signalled, no further fetch is issued.
C16_NoFetchAfterCancel == [][cancelled => fetched' = fetched]_vars

\* the page with its structured data types, OGP fields, Twitter Card fields,
\* hreflang links and viewport meta replaced
WithInfo(p, i) ==
    [p EXCEPT !.ld_json_types = i.ld_json_types, !.ogp_data = i.ogp_data,
              !.twitter_data = i.twitter_data,
              !.hreflang_links = i.hreflang_links,
              !.viewport_content = i.viewport_content]

InfoVariants(p) ==
    {WithInfo(p, i) : i \in {NoInfo, RichInfo}}
    \cup {[p EXCEPT !.viewport_content = v] : v \in {"", "width=device-width"}}
    \cup {[p EXCEPT !.ogp_data = v] : v \in {<<>>, <<"og:title">>}}

MainRegion(nodes) ==
    Descendants(nodes, MainContentTag(nodes)) \cup {MainContentTag(nodes)}

\* C18: body_char_count counts only the characters of the main-content region
\* that are not inside a navigational element, where an element is
\* navigational if it or an ancestor is a header/footer/nav tag, has one of
\* the navigation roles, or has a class or id containing a navigation keyword.
C18_BodyExcludesNavigation ==
    (pc = "eval" /\ MainContentTag(doc.nodes) # 0)
        => page.body_char_count =
             CleanLen(doc.nodes,
                      {j \in MainRegion(doc.nodes) :
                          ~IsNavigationElement(doc.nodes, j)})

\* C19: internal_links_count is computed only over the links inside the
\* main-content region: a same-host link outside the selected main-content
\* element is never counted.
C19_LinksOnlyInMainRegion ==
    (pc = "eval" /\ MainContentTag(doc.nodes) # 0)
        => page.internal_links_count =
             Cardinality(UNION {
                 {doc.nodes[j].links[k].path :
                     k \in {x \in DOMAIN doc.nodes[j].links :
                               doc.nodes[j].links[x].host = "own"}} :
                 j \in {y \in MainRegion(doc.nodes) :
                           ~IsNavigationElement(doc.nodes, y)}})

ScoreKeys == {"comprehensive_score", "category_scores", "check_results"}

Html2xxKinds == {OkKind, "status_2xx_other"}

\* C21: a fetched URL yields a page record whenever its response has any 2xx
\* status and an HTML content type; it is skipped without a record only when
\* the status is non-2xx or the content type is not HTML.
C21_Any2xxHtmlYieldsRecord ==
    /\ last.kind \in Html2xxKinds =>
          \E k \in DOMAIN pages_data : pages_data[k].url = last.url
    /\ (/\ last.kind \in {OkKind} \cup StatusKinds \cup {"non_html"}
        /\ \A k \in DOMAIN pages_data : pages_data[k].url # last.url)
          => last.kind \in {"status_non_2xx", "non_html"}

\* C22 as stated: the frontier is first-in first-out, and every URL at link
\* distance d from the start URL is taken from the frontier before any other
\* URL that was first discovered d+1 links away.
C22_BreadthFirstAsStated ==
    /\ popped \o to_visit = enqueued
    /\ \A i \in DOMAIN popped :
         \A a \in DOMAIN site :
            (/\ a # popped[i]
             /\ LinkDistance(a) >= 0
             /\ DepthOf(popped[i], enqueued, depths) = LinkDistance(a) + 1)
               => \E j \in 1..(i - 1) : popped[j] = a

\* C22 amended: the frontier is first-in first-out (the URLs are popped in
\* the order they were enqueued), and every URL first discovered d links away
\* from the start URL is popped before any URL first discovered d+1 links
\* away.
C22_BreadthFirst ==
    /\ popped \o to_visit = enqueued
    /\ \A i, j \in DOMAIN enqueued : depths[i] < depths[j] => i < j

\* a crawl in which one page's fetch failed has popped URLs found one, two and
\* three links away, with a URL waiting behind an earlier one in the frontier
C22_Witness ==
    /\ failed # {}
    /\ \E i, j, k \in DOMAIN popped :
         depths[i] = 1 /\ depths[j] = 2 /\ depths[k] = 3
    /\ \E i \in DOMAIN popped : depths[i] > LinkDistance(popped[i])
    /\ Len(to_visit) >= 1

\* C23: crawl ordering is deterministic: a second run of _crawl_pages with
\* the same inputs against the same unchanged site, in whatever process it
\* runs, fetches the same URLs in the same order and returns the same list
\* of page records as this run.
C23_DeterministicOrder ==
    pc = "done" =>
        \A o \in Orders : CrawlPages(site, max_pages, o) = pages_data

\* the run described by the state is the run CrawlPages computes for its order
CrawlPagesIsTheRun ==
    pc = "done" => CrawlPages(site, max_pages, order) = pages_data

\* the candidates, in order, whose whitespace-stripped text has at least 100
\* characters
BigCandidates(nodes) ==
    {c \in 1..Len(CandidateTags(nodes)) :
        CleanLen(nodes, ExtractTextFromTag(nodes, CandidateTags(nodes)[c])) >= 100}

\* the length of the text of a candidate, and of the fallback text
CandidateLen(d, c) ==
    CleanLen(d.nodes, ExtractTextFromTag(d.nodes, CandidateTags(d.nodes)[c]))
FallbackLen(d) ==
    CleanLen(d.nodes, FallbackText(d.nodes)) + NonSpaceLen(d.title)

C24_SecondCandidateReached ==
    /\ pc = "eval"
    /\ First(BigCandidates(doc.nodes)) = 2

\* the adjustment recorded under key, 0 when the key is absent
AdjustmentOf(e, key) ==
    IF key \in DOMAIN e.context_adjustments
    THEN e.context_adjustments[key] ELSE 0

\* the title or an H1 of p contains one of the first five keywords of summary
ContainsTopFive(p, summary) ==
    \E i \in 1..Len(summary.top_keywords) :
        /\ i <= 5
        /\ \/ Contains(Lower(summary.top_keywords[i].kw), Lower(p.title))
           \/ \E h \in DOMAIN p.headings.h1 :
                 Contains(Lower(summary.top_keywords[i].kw),
                          Lower(p.headings.h1[h]))

\* C25: the evaluator records exactly these adjustments for links, volume,
\* depth and keyword alignment: links 0 -> -5, 1-2 -> -3, >= 3 with relevance
\* < 0.4 -> -2, >= 3 with relevance >= 0.6 -> +2; body < 400 -> -2,
\* >= 2000 -> +2; URL depth > 4 -> -2; title or H1 containing a top-5 keyword
\* -> +3, top keywords with none matching -> -2; otherwise none, and every
\* recorded adjustment is non-zero.
C25_AdjustmentTable ==
    evaluation.done =>
        LET n == page.internal_links_count
            r == page.link_relevance_score
            c == page.body_char_count
        IN  /\ AdjustmentOf(evaluation, "internal_links") =
                  (IF n = 0 THEN -5
                   ELSE IF n \in 1..2 THEN -3
                   ELSE IF n >= 3 /\ r < 400 THEN -2
                   ELSE IF n >= 3 /\ r >= 600 THEN 2
                   ELSE 0)
            /\ AdjustmentOf(evaluation, "content_volume") =
                  (IF c < 400 THEN -2 ELSE IF c >= 2000 THEN 2 ELSE 0)
            /\ AdjustmentOf(evaluation, "url_depth") =
                  (IF Len(page.url) > 4 THEN -2 ELSE 0)
            /\ AdjustmentOf(evaluation, "keyword_alignment") =
                  (IF ContainsTopFive(page, structure_summary) THEN 3
                   ELSE IF structure_summary.top_keywords # <<>> THEN -2
                   ELSE 0)
            /\ DOMAIN evaluation.context_adjustments \subseteq
                  {"internal_links", "content_volume", "url_depth",
                   "keyword_alignment", "meta_keywords_alignment"}
            /\ \A k \in DOMAIN evaluation.context_adjustments :
                  evaluation.context_adjustments[k] # 0

\* a page with three links of relevance exactly 0.4, a long body, a URL five
\* segments deep and a title naming a top keyword has been evaluated
C25_Witness ==
    /\ evaluation.done
    /\ page.internal_links_count = 3
    /\ page.link_relevance_score = 400
    /\ "internal_links" \notin DOMAIN evaluation.context_adjustments
    /\ AdjustmentOf(evaluation, "content_volume") = 2
    /\ AdjustmentOf(evaluation, "url_depth") = -2
    /\ AdjustmentOf(evaluation, "keyword_alignment") = 3

\* how many of the declared meta keywords are among the first ten keywords
\* of the summary, compared in lower case
DeclaredInTopTen(p, summary) ==
    Cardinality({i \in DOMAIN p.meta_keywords_list :
                    \E k \in 1..Len(summary.top_keywords) :
                        /\ k <= 10
                        /\ Lower(summary.top_keywords[k].kw)
                              = Lower(p.meta_keywords_list[i])})

\* C26: for every non-empty list of declared meta keywords, repeated keywords
\* included, and every site summary, the meta-keyword adjustment is +2
\* exactly when at least 70% of the declared keywords are in the site's
\* top-10 keyword set, -2 exactly when fewer than 30% are, and absent
\* otherwise.
C26_MetaKeywordAlignment ==
    (evaluation.done /\ page.meta_keywords_list # <<>>) =>
        LET n == Len(page.meta_keywords_list)
            hits == DeclaredInTopTen(page, structure_summary)
        IN  AdjustmentOf(evaluation, "meta_keywords_alignment") =
               (IF 10 * hits >= 7 * n THEN 2
                ELSE IF 10 * hits < 3 * n THEN -2
                ELSE 0)

\* the suggestion strings the evaluator has for the adjustment under key
SuggestionsFor(key) ==
    IF key = "internal_links"
    THEN {"links_zero", "links_few", "links_low_relevance"}
    ELSE IF key = "content_volume" THEN {"volume_guidance"}
    ELSE IF key = "url_depth" THEN {"url_too_deep"}
    ELSE IF key = "keyword_alignment" THEN {"keyword_alignment"}
    ELSE IF key = "meta_keywords_alignment" THEN {"meta_keywords_misaligned"}
    ELSE {}

\* the suggestions list contains a suggestion for the adjustment under key
HasSuggestion(e, key) == Range(e.suggestions) \cap SuggestionsFor(key) # {}

\* C27 as stated: every key in context_adjustments, positive or negative,
\* has a suggestion emitted for it in the suggestions list.
C27_EverySuggestedAsStated ==
    evaluation.done =>
        \A k \in DOMAIN evaluation.context_adjustments :
            HasSuggestion(evaluation, k)

\* C27 amended: every negative adjustment has a suggestion emitted for it
\* (for content_volume the character-count guidance that every evaluation
\* carries); a positive adjustment for links, keyword alignment or meta
\* keywords is applied without one.
C27_NegativeSuggested ==
    evaluation.done =>
        /\ \A k \in DOMAIN evaluation.context_adjustments :
              /\ evaluation.context_adjustments[k] < 0
                    => HasSuggestion(evaluation, k)
              /\ (evaluation.context_adjustments[k] > 0 /\ k # "content_volume")
                    => ~HasSuggestion(evaluation, k)
        /\ HasSuggestion(evaluation, "content_volume")

\* an evaluation with a penalty for URL depth and bonuses for links and
\* keyword alignment
C27_Witness ==
    /\ evaluation.done
    /\ AdjustmentOf(evaluation, "url_depth") = -2
    /\ AdjustmentOf(evaluation, "internal_links") = 2
    /\ AdjustmentOf(evaluation, "keyword_alignment") = 3
    /\ "url_too_deep" \in Range(evaluation.suggestions)

\* the path segments longer than 2 characters of the input pages
LongSegments ==
    {seg \in UNION {Range(pages_data[i].url) : i \in DOMAIN pages_data} :
        Len(seg) > 2}

\* the number of times a segment occurs in the paths of the input pages
Occurrences(seg) ==
    SumOver([i \in DOMAIN pages_data |->
                Cardinality({j \in DOMAIN pages_data[i].url :
                                pages_data[i].url[j] = seg})],
            DOMAIN pages_data)

\* where a segment is first seen: page index, then position in the path
FirstSeenAt(seg) ==
    LET at == {<<i, j>> \in (DOMAIN pages_data) \X (1..6) :
                  /\ j \in DOMAIN pages_data[i].url
                  /\ pages_data[i].url[j] = seg}
        first == CHOOSE a \in at :
                    \A b \in at : a[1] < b[1] \/ (a[1] = b[1] /\ a[2] <= b[2])
    IN  10 * first[1] + first[2]

\* C28: top_keywords holds at most 10 (segment, count) pairs of path segments
\* longer than 2 characters with their counts over all pages, ordered by
\* non-increasing count with equal counts in first-seen order, and no omitted
\* segment has a higher count than a reported one; page_count is the number
\* of input pages and the sum of the depth_distribution values.
C28_TopKeywords ==
    pc = "summarized" =>
        LET top == structure_summary.top_keywords
            reported == {top[i].kw : i \in DOMAIN top}
            dist == structure_summary.depth_distribution
        IN  /\ Len(top) <= 10
            /\ \A i \in DOMAIN top :
                  /\ top[i].kw \in LongSegments
                  /\ top[i].count = Occurrences(top[i].kw)
            /\ \A i, j \in DOMAIN top :
                  i < j =>
                     \/ top[i].count > top[j].count
                     \/ /\ top[i].count = top[j].count
                        /\ FirstSeenAt(top[i].kw) < FirstSeenAt(top[j].kw)
            /\ \A seg \in LongSegments \ reported :
                  /\ Len(top) = 10
                  /\ \A i \in DOMAIN top : Occurrences(seg) <= top[i].count
            /\ structure_summary.page_count = Len(pages_data)
            /\ structure_summary.page_count = SumOver(dist, DOMAIN dist)

\* three pages were summarised whose paths hold eleven different long
\* segments: one is omitted, the first reported one was seen after others
\* that occur less often, and two pages share a depth
C28_Witness ==
    /\ pc = "summarized"
    /\ Len(pages_data) = 3
    /\ Cardinality(LongSegments) = 11
    /\ Len(structure_summary.top_keywords) = 10
    /\ structure_summary.top_keywords[1].count >= 2
    /\ FirstSeenAt(structure_summary.top_keywords[1].kw)
          > FirstSeenAt(structure_summary.top_keywords[2].kw)
    /\ structure_summary.top_keywords[9].count
          = structure_summary.top_keywords[10].count
    /\ \E d \in DOMAIN structure_summary.depth_distribution :
          structure_summary.depth_distribution[d] = 2

\* the most URLs the frontier can ever have held under a budget of limit pages
FrontierBound(limit) ==
    IF limit >= 1 THEN 1 + MaxLinksPerPage * (limit - 1) ELSE 1

\* C29: _crawl_pages always terminates, and the number of URLs ever placed in
\* the frontier, hence the number of fetches, is at most
\* 1 + 20 * (max_pages - 1) for max_pages >= 1.
C29_Terminates ==
    /\ [](/\ Len(enqueued) <= FrontierBound(max_pages)
          /\ Len(fetched) <= Len(enqueued))
    /\ <>(pc = "done")

\* a crawl with a budget of two pages returned after its frontier had held
\* 1 + 20 URLs, one fetch having failed
C29_Witness ==
    /\ pc = "done"
    /\ max_pages = 2
    /\ Len(enqueued) = 1 + MaxLinksPerPage
    /\ failed # {}
    /\ Len(pages_data) = 2

\* the comprehensive_score values reported in sources
SourceScores == [i \in DOMAIN result.sources |-> result.sources[i].comprehensive_score]

\* C30: in the result of analyze_domain_seo_lightweight with at least one
\* crawled page, domain_scores.avg_score, max_score and min_score are the
\* mean rounded to one decimal, the maximum and the minimum of the
\* comprehensive_score values reported in sources.
C30_DomainScores ==
    (pc = "returned" /\ answer = "report") =>
        /\ Len(result.sources) = Len(pages_data)
        /\ result.domain_scores.avg_score
              = RoundTenths(SumSeq(SourceScores), Len(SourceScores))
        /\ result.domain_scores.max_score = MaxOf(SourceScores)
        /\ result.domain_scores.min_score = MinOf(SourceScores)

====
